---- MODULE Spec2Model ----
(***************************************************************************)
(* Model of the task store (agent/db.py), the planner                      *)
(* (agent/subagents/planner.py) and the executor                           *)
(* (agent/subagents/executor.py) of the coding agent.                      *)
(*                                                                         *)
(* Text is a sequence of one-character strings.  The store is the three    *)
(* tables tasks, plans and executions; every executor invocation is a      *)
(* frame ex[p] that advances one store call (or one handler call) at a     *)
(* time, so that two invocations can later be interleaved at the           *)
(* granularity of store operations.                                        *)
(***************************************************************************)
EXTENDS Integers, Sequences, FiniteSets, TLC

\* --------------------------------------------------------------- bounds
\* Rows the tasks table may hold (guards ParsePlan).
MaxTasks == 2
\* Rows the plans table may hold (guards ParsePlan).
MaxPlans == 2
\* Rows the executions table may hold (guards the executor's entry points).
MaxExecs == 2
\* Fragments joined into one input line of the classifier.
MaxFrags == 2

\* ------------------------------------------------------------ constants
\* SQL NULL / Python None.
NULL == "<null>"
\* A key that a result dict does not have.
ABSENT == "<absent>"
\* datetime.now().isoformat(): the model keeps only that a timestamp is set.
TS == "<timestamp>"

Statuses == {"pending", "in_progress", "completed", "failed"}

\* Executor invocations (processes) that may run against one store.
Procs == {1, 2}

\* ----------------------------------------------------------------- text
RECURSIVE Flatten(_)
\* ''.join(parts)
Flatten(parts) ==
    IF parts = <<>> THEN <<>> ELSE Head(parts) \o Flatten(Tail(parts))

UpperCase == <<"A","B","C","D","E","F","G","H","I","J","K","L","M",
               "N","O","P","Q","R","S","T","U","V","W","X","Y","Z">>
LowerCase == <<"a","b","c","d","e","f","g","h","i","j","k","l","m",
               "n","o","p","q","r","s","t","u","v","w","x","y","z">>

\* str.lower() on one character.
LowerChar(c) ==
    IF \E i \in 1..Len(UpperCase) : UpperCase[i] = c
    THEN LowerCase[CHOOSE i \in 1..Len(UpperCase) : UpperCase[i] = c]
    ELSE c

\* str.lower()
Lower(s) == [i \in 1..Len(s) |-> LowerChar(s[i])]

WhiteSpace == {" ", "\t", "\n", "\r"}

RECURSIVE LStrip(_)
LStrip(s) ==
    IF s # <<>> /\ Head(s) \in WhiteSpace THEN LStrip(Tail(s)) ELSE s

RECURSIVE RStrip(_)
RStrip(s) ==
    IF s # <<>> /\ s[Len(s)] \in WhiteSpace
    THEN RStrip(SubSeq(s, 1, Len(s) - 1)) ELSE s

\* str.strip()
Strip(s) == RStrip(LStrip(s))

\* s[i:].startswith(kw), i counted from 1
StartsAt(s, i, kw) ==
    /\ i + Len(kw) - 1 <= Len(s)
    /\ \A j \in 1..Len(kw) : s[i + j - 1] = kw[j]

RECURSIVE FindFrom(_, _, _)
\* The scan of `kw in s`, left to right from position i.
FindFrom(s, i, kw) ==
    IF i + Len(kw) - 1 > Len(s) THEN FALSE
    ELSE IF StartsAt(s, i, kw) THEN TRUE
    ELSE FindFrom(s, i + 1, kw)

\* Python's `kw in s` on strings.
Contains(s, kw) == FindFrom(s, 1, kw)

\* ------------------------------------------------------------ the store
\* A row of the tasks table (description, parent_task_id and created_at
\* carry no behaviour and are left out).
TaskRow(id, plan_id, title, task_type, priority) ==
    [id |-> id, plan_id |-> plan_id, title |-> title, task_type |-> task_type,
     status |-> "pending", priority |-> priority, result |-> NULL,
     completed_at |-> NULL]

\* What `next(..., None)` and `tasks[0] if tasks else None` give for no row.
NoTask ==
    [id |-> 0, plan_id |-> 0, title |-> <<>>, task_type |-> NULL,
     status |-> NULL, priority |-> 0, result |-> NULL, completed_at |-> NULL]

\* INSERT INTO plans: the new rowid is max(rowid) + 1.
create_plan(P, title, source_file) ==
    Append(P, [id |-> Len(P) + 1, title |-> title, source_file |-> source_file,
               status |-> "pending"])

\* INSERT INTO tasks: status defaults to 'pending', result and completed_at
\* to NULL; the new rowid is max(rowid) + 1.
create_task(T, plan_id, title, task_type, priority) ==
    Append(T, TaskRow(Len(T) + 1, plan_id, title, task_type, priority))

\* A variant of OrderBefore: ascending priority.
OrderBefore_asc(a, b) ==
    \/ a.priority < b.priority
    \/ a.priority = b.priority /\ a.id < b.id

\* ORDER BY priority DESC, id ASC
OrderBefore(a, b) ==
    \/ a.priority > b.priority
    \/ a.priority = b.priority /\ a.id < b.id

RECURSIVE OrderRows(_)
OrderRows(rows) ==
    IF rows = {} THEN <<>>
    ELSE LET r == CHOOSE x \in rows : \A o \in rows \ {x} : OrderBefore(x, o)
         IN  <<r>> \o OrderRows(rows \ {r})

\* A variant of get_tasks: the status filter is not applied.
get_tasks_unfiltered(T, plan_id, status) ==
    OrderRows({T[i] : i \in {j \in 1..Len(T) :
        plan_id = 0 \/ T[j].plan_id = plan_id}})

\* SELECT * FROM tasks WHERE 1=1 [AND plan_id=?] [AND status=?]
\* ORDER BY priority DESC, id ASC.  A filter that is None is not applied.
get_tasks(T, plan_id, status) ==
    OrderRows({T[i] : i \in {j \in 1..Len(T) :
        /\ plan_id = 0 \/ T[j].plan_id = plan_id
        /\ status = NULL \/ T[j].status = status}})

\* `if status:` / `if result:` -- None and the empty string are falsy.
Truthy(x) == x # NULL /\ x # ""

\* A variant of update_task: setting a task pending clears its result.
update_task_clear(T, task_id, status, result) ==
    [i \in 1..Len(T) |->
        IF T[i].id # task_id THEN T[i]
        ELSE LET a == IF Truthy(status) THEN [T[i] EXCEPT !.status = status]
                      ELSE T[i]
                 b == IF Truthy(status) /\ status = "completed"
                      THEN [a EXCEPT !.completed_at = TS] ELSE a
             IN  IF status = "pending" THEN [b EXCEPT !.result = NULL]
                 ELSE IF Truthy(result) THEN [b EXCEPT !.result = result]
                 ELSE b]

\* UPDATE tasks SET status=? [, completed_at=now] [, result=?] WHERE id=?
update_task(T, task_id, status, result) ==
    [i \in 1..Len(T) |->
        IF T[i].id # task_id THEN T[i]
        ELSE LET a == IF Truthy(status) THEN [T[i] EXCEPT !.status = status]
                      ELSE T[i]
                 b == IF Truthy(status) /\ status = "completed"
                      THEN [a EXCEPT !.completed_at = TS] ELSE a
             IN  IF Truthy(result) THEN [b EXCEPT !.result = result] ELSE b]

\* A variant of get_next_task: a failed task is taken when none is pending.
get_next_task_failed(T) ==
    LET rows == get_tasks(T, 0, "pending") \o get_tasks(T, 0, "failed")
    IN  IF rows = <<>> THEN NoTask ELSE rows[1]

\* A variant of get_next_task: the last pending row instead of the first.
get_next_task_last(T) ==
    LET rows == get_tasks(T, 0, "pending")
    IN  IF rows = <<>> THEN NoTask ELSE rows[Len(rows)]

\* get_tasks(status="pending")[0], or None
get_next_task(T) ==
    LET rows == get_tasks(T, 0, "pending")
    IN  IF rows = <<>> THEN NoTask ELSE rows[1]

\* A variant of log_execution: the row records the call, not its success.
log_execution_blind(E, task_id, agent_type, output, success) ==
    Append(E, [task_id |-> task_id, agent_type |-> agent_type,
               output |-> output, success |-> FALSE])

\* INSERT INTO executions
log_execution(E, task_id, agent_type, output, success) ==
    Append(E, [task_id |-> task_id, agent_type |-> agent_type,
               output |-> output, success |-> success])

\* The directory the agent runs in: the path of its project record.
ProjectPath == "."

\* db.get_or_create_project(path): the id of the row with this path, after
\* inserting it when there is none.
get_or_create_project(P, path) ==
    IF \E i \in 1..Len(P) : P[i].path = path
    THEN [table |-> P,
          id |-> P[CHOOSE i \in 1..Len(P) : P[i].path = path].id]
    ELSE [table |-> Append(P, [id |-> Len(P) + 1, path |-> path]),
          id |-> Len(P) + 1]

\* db.set_knowledge(key, value, category), for the project proj_id: insert,
\* or on conflict of (project_id, key) update value, category and updated_at.
set_knowledge(K, proj_id, key, value, category) ==
    IF \E i \in 1..Len(K) : K[i].project_id = proj_id /\ K[i].key = key
    THEN [i \in 1..Len(K) |->
            IF K[i].project_id = proj_id /\ K[i].key = key
            THEN [K[i] EXCEPT !.value = value, !.category = category,
                              !.updated_at = TS]
            ELSE K[i]]
    ELSE Append(K, [id |-> Len(K) + 1, project_id |-> proj_id, key |-> key,
                    value |-> value, category |-> category,
                    updated_at |-> TS])

\* --------------------------------------------------------- result dicts
\* The dicts handlers and the executor return; a key that is not there holds
\* ABSENT, a key that holds None holds NULL.
Dict(success, output, error, message) ==
    [success |-> success, output |-> output, error |-> error,
     message |-> message]

NoResult == Dict(FALSE, ABSENT, ABSENT, ABSENT)

\* dict.get(key, default)
Get(d, key, default) == IF d[key] = ABSENT THEN default ELSE d[key]

\* str(x)
Str(x) == IF x = NULL THEN "None" ELSE x

\* --------------------------------------------------------------- skills
\* What run_claude returns here: exit status 0 with some or with no output,
\* or a non-zero exit with its stderr.
ClaudeResults ==
    {Dict(TRUE, "out", ABSENT, ABSENT), Dict(TRUE, "", ABSENT, ABSENT),
     Dict(FALSE, ABSENT, "err", ABSENT)}

\* CoderSkill.execute, given what run_claude returned.
CoderExecute(task, r) ==
    IF r.success
    THEN Dict(TRUE, Get(r, "output", ""), ABSENT, "Completed")
    ELSE Dict(FALSE, ABSENT, Get(r, "error", "Unknown error"), "Failed")

\* The names of TesterSkill._get_test_command's table.
KnownFrameworks ==
    {"pytest", "jest", "mocha", "vitest", "go-test", "cargo-test"}

\* The value of test_framework the knowledge base holds here (a project
\* where pytest was detected).
Frameworks == {"pytest"}

\* What the test runner's subprocess.run does here: exit status 0, or a
\* non-zero exit with its stderr.
RunnerResults ==
    {[kind |-> "exit", returncode |-> 0, stdout |-> "out", stderr |-> ""],
     [kind |-> "exit", returncode |-> 1, stdout |-> "out", stderr |-> "err"]}

\* TesterSkill.run_tests
run_tests(framework, run) ==
    IF framework = "" THEN Dict(FALSE, ABSENT, "No test framework detected", ABSENT)
    ELSE IF framework \notin KnownFrameworks
    THEN Dict(FALSE, ABSENT, "Unknown framework", ABSENT)
    ELSE IF run.kind = "timeout" THEN Dict(FALSE, ABSENT, "Test timeout", ABSENT)
    ELSE IF run.kind = "oserror" THEN Dict(FALSE, ABSENT, "exc", ABSENT)
    ELSE Dict(run.returncode = 0, run.stdout,
              IF run.returncode # 0 THEN run.stderr ELSE NULL, ABSENT)

Generate == <<"g","e","n","e","r","a","t","e">>

\* TesterSkill.execute
TesterExecute(task, framework, run, r) ==
    IF Contains(Lower(task.title), Generate) THEN r
    ELSE run_tests(framework, run)

\* What the operator and git do during one interactive_ship here: a dirty
\* tree, the commit action, with or without a message.
ShipEnvs ==
    [status : {"dirty"},
     action : {"commit"},
     message : {"", "msg"},
     add_ok : {TRUE}, commit_ok : {TRUE}, confirm : {FALSE},
     push_ok : {TRUE}, stderr : {"err"}]

\* ShipperSkill.interactive_ship
interactive_ship(e) ==
    IF e.status = "error" THEN Dict(FALSE, ABSENT, "exc", ABSENT)
    ELSE IF e.status = "clean" THEN Dict(TRUE, ABSENT, ABSENT, "Nothing to commit")
    ELSE IF e.action = "skip" THEN Dict(TRUE, ABSENT, ABSENT, "Skipped")
    ELSE IF e.message = "" THEN Dict(FALSE, ABSENT, "No commit message", ABSENT)
    ELSE IF ~e.add_ok THEN Dict(FALSE, ABSENT, e.stderr, ABSENT)
    ELSE IF ~e.commit_ok THEN Dict(FALSE, "out", e.stderr, ABSENT)
    ELSE IF e.action = "commit-push" /\ e.confirm
    THEN Dict(e.push_ok, "out", IF e.push_ok THEN NULL ELSE e.stderr, ABSENT)
    ELSE Dict(TRUE, ABSENT, ABSENT, "Committed")

\* A variant of SkillTypes: a handler is registered for docs too.
SkillTypes_docs == {"code", "test", "ship", "docs"}

\* ExecutorAgent.__init__: self.skills
SkillTypes == {"code", "test", "ship"}

Returned(r) == [raised |-> FALSE, result |-> r, exc |-> ABSENT]
Raised(text) == [raised |-> TRUE, result |-> NoResult, exc |-> text]

\* skill.execute(task): every dict the skill of the task's type can return;
\* the test and ship skills can also raise (reading the knowledge base,
\* prompting the operator).
HandlerOutcomes(task) ==
    IF task.task_type = "code"
    THEN {Returned(CoderExecute(task, r)) : r \in ClaudeResults}
    ELSE IF task.task_type = "test"
    THEN {Returned(TesterExecute(task, f, run, r)) :
              f \in Frameworks, run \in RunnerResults, r \in ClaudeResults}
         \cup {Raised("exc")}
    ELSE {Returned(interactive_ship(e)) : e \in ShipEnvs} \cup {Raised("exc")}

\* -------------------------------------------------------------- planner
TestWords == {<<"t","e","s","t">>, <<"s","p","e","c">>,
              <<"v","e","r","i","f","y">>}
ShipWords == {<<"c","o","m","m","i","t">>, <<"p","u","s","h">>,
              <<"s","h","i","p">>, <<"d","e","p","l","o","y">>,
              <<"r","e","l","e","a","s","e">>}

\* A task dict {"title": ..., "type": ...}; has_title is FALSE for an element
\* (of the assistant's array) on which task["title"] raises.
TaskDict(title, type) == [title |-> title, type |-> type, has_title |-> TRUE]

\* A variant of _classify_task: the ship keywords are tried first.
_classify_task_shipfirst(text) ==
    LET text_lower == Lower(text)
    IN  TaskDict(Strip(text),
            IF \E kw \in ShipWords : Contains(text_lower, kw) THEN "ship"
            ELSE IF \E kw \in TestWords : Contains(text_lower, kw) THEN "test"
            ELSE "code")

\* PlannerAgent._classify_task
_classify_task(text) ==
    LET text_lower == Lower(text)
    IN  TaskDict(Strip(text),
            IF \E kw \in TestWords : Contains(text_lower, kw) THEN "test"
            ELSE IF \E kw \in ShipWords : Contains(text_lower, kw) THEN "ship"
            ELSE "code")

Digits == {"0","1","2","3","4","5","6","7","8","9"}

\* `^` under re.MULTILINE
IsLineStart(s, i) == i = 1 \/ s[i - 1] = "\n"

RECURSIVE SkipWs(_, _)
\* The first position >= i that \s does not match (Len(s) + 1 if none).
SkipWs(s, i) ==
    IF i <= Len(s) /\ s[i] \in WhiteSpace THEN SkipWs(s, i + 1) ELSE i

RECURSIVE SkipDigits(_, _)
SkipDigits(s, i) ==
    IF i <= Len(s) /\ s[i] \in Digits THEN SkipDigits(s, i + 1) ELSE i

RECURSIVE Eol(_, _)
\* The last position of the line that holds position i (`.` stops at \n).
Eol(s, i) ==
    IF i + 1 <= Len(s) /\ s[i + 1] # "\n" THEN Eol(s, i + 1) ELSE i

NoMatch == [ok |-> FALSE, from |-> 0, to |-> 0]

\* `\s*(.+)$` (minws = 0) or `\s+(.+)$` (minws = 1) from position m: \s is
\* greedy and crosses line ends; when only white space is left, it gives back
\* up to the last character that `.` matches.
TailGroup(s, m, minws) ==
    LET n == SkipWs(s, m)
        back == {q \in (m + minws)..Len(s) : s[q] # "\n"}
    IN  IF n <= Len(s)
        THEN IF n - m >= minws
             THEN [ok |-> TRUE, from |-> n, to |-> Eol(s, n)]
             ELSE NoMatch
        ELSE IF back # {}
        THEN LET q == CHOOSE x \in back : \A y \in back : y <= x
             IN  [ok |-> TRUE, from |-> q, to |-> q]
        ELSE NoMatch

\* ^[-*]\s*\[[ x]\]\s*(.+)$
MatchCheckbox(s, i) ==
    LET k == SkipWs(s, i + 1)
    IN  IF /\ s[i] \in {"-", "*"}
           /\ k + 2 <= Len(s)
           /\ s[k] = "[" /\ s[k + 1] \in {" ", "x"} /\ s[k + 2] = "]"
        THEN TailGroup(s, k + 3, 0)
        ELSE NoMatch

\* ^\d+\.\s+(.+)$
MatchNumbered(s, i) ==
    LET d == SkipDigits(s, i)
    IN  IF d > i /\ d <= Len(s) /\ s[d] = "."
        THEN TailGroup(s, d + 1, 1)
        ELSE NoMatch

\* ^[-*]\s+(.+)$
MatchBullet(s, i) ==
    IF s[i] \in {"-", "*"} THEN TailGroup(s, i + 1, 1) ELSE NoMatch

\* ^#\s+(.+)$
MatchTitle(s, i) ==
    IF s[i] = "#" THEN TailGroup(s, i + 1, 1) ELSE NoMatch

Match(kind, s, i) ==
    IF ~IsLineStart(s, i) THEN NoMatch
    ELSE IF kind = "checkbox" THEN MatchCheckbox(s, i)
    ELSE IF kind = "numbered" THEN MatchNumbered(s, i)
    ELSE IF kind = "bullet" THEN MatchBullet(s, i)
    ELSE MatchTitle(s, i)

RECURSIVE FindIter(_, _, _)
\* [m.group(1) for m in re.finditer(pattern, s, re.MULTILINE)], from position i
FindIter(kind, s, i) ==
    IF i > Len(s) THEN <<>>
    ELSE LET m == Match(kind, s, i)
         IN  IF m.ok
             THEN <<SubSeq(s, m.from, m.to)>> \o FindIter(kind, s, m.to + 1)
             ELSE FindIter(kind, s, i + 1)

SectionWords == {<<"t","a","s","k","s">>, <<"s","t","e","p","s">>,
                 <<"t","o","d","o">>, <<"p","l","a","n">>}

RECURSIVE BulletRun(_, _)
\* (?:[-*]\s+.+\n?)+ from position b: the position of its last character
\* (b - 1 when not even one item matches).
BulletRun(s, b) ==
    IF b > Len(s) THEN b - 1
    ELSE LET m == MatchBullet(s, b)
             e == IF m.to + 1 <= Len(s) /\ s[m.to + 1] = "\n"
                  THEN m.to + 1 ELSE m.to
         IN  IF m.ok
             THEN LET r == BulletRun(s, e + 1)
                  IN  IF r >= e + 1 THEN r ELSE e
             ELSE b - 1

\* (?:^##?\s*(?:Tasks|Steps|TODO|Plan)\s*\n)((?:[-*]\s+.+\n?)+) at position i,
\* re.MULTILINE | re.IGNORECASE: the bounds of group 1.
MatchSection(s, i) ==
    LET h == IF i + 1 <= Len(s) /\ s[i + 1] = "#" THEN i + 2 ELSE i + 1
        k == SkipWs(s, h)
        w == {kw \in SectionWords : StartsAt(Lower(s), k, kw)}
    IN  IF ~IsLineStart(s, i) \/ s[i] # "#" \/ w = {} THEN NoMatch
        ELSE LET a == k + Len(CHOOSE kw \in w : TRUE)
                 b == SkipWs(s, a)
             IN  IF b > a /\ b <= Len(s) /\ s[b - 1] = "\n"
                    /\ BulletRun(s, b) >= b
                 THEN [ok |-> TRUE, from |-> b, to |-> BulletRun(s, b)]
                 ELSE NoMatch

RECURSIVE SearchSection(_, _)
\* re.search of the section pattern: the leftmost match.
SearchSection(s, i) ==
    IF i > Len(s) THEN NoMatch
    ELSE IF MatchSection(s, i).ok THEN MatchSection(s, i)
    ELSE SearchSection(s, i + 1)

ClassifyAll(lines) == [i \in 1..Len(lines) |-> _classify_task(lines[i])]

\* PlannerAgent._ai_extract_tasks, given what run_claude returned: `ai.kind`
\* says what the output is ("array": text holding a JSON array, "list": a
\* parsed list) and ai.items holds the array's elements.
_ai_extract_tasks(ai) ==
    IF ai.success /\ ai.kind \in {"array", "list"} THEN ai.items ELSE <<>>

\* A variant of _extract_tasks: the numbered items are added to the checkbox
\* items.
_extract_tasks_mixed(content, ai) ==
    LET checkbox == FindIter("checkbox", content, 1)
        numbered == FindIter("numbered", content, 1)
    IN  ClassifyAll(checkbox \o numbered)

\* PlannerAgent._extract_tasks
_extract_tasks(content, ai) ==
    LET checkbox == FindIter("checkbox", content, 1)
        numbered == FindIter("numbered", content, 1)
        section  == SearchSection(content, 1)
        bullets  == IF section.ok
                    THEN FindIter("bullet",
                                  SubSeq(content, section.from, section.to), 1)
                    ELSE <<>>
    IN  IF checkbox # <<>> THEN ClassifyAll(checkbox)
        ELSE IF numbered # <<>> THEN ClassifyAll(numbered)
        ELSE IF bullets # <<>> THEN ClassifyAll(bullets)
        ELSE _ai_extract_tasks(ai)

Untitled == <<"U","n","t","i","t","l","e","d"," ","P","l","a","n">>

\* parse_plan: title_match.group(1) if title_match else "Untitled Plan"
PlanTitle(content) ==
    LET found == FindIter("title", content, 1)
    IN  IF found = <<>> THEN Untitled ELSE found[1]

\* A variant of PlanPriority: priority grows with the index.
PlanPriority_index(total, i) == i + 1

\* parse_plan: priority=len(tasks) - i, for i counted from 0
PlanPriority(total, i) == total - i

RECURSIVE CreateTasks(_, _, _, _)
\* parse_plan's loop over enumerate(tasks), from the element at i (from 0):
\* the table afterwards, the ids created, and whether task["title"] raised.
CreateTasks(T, plan_id, extracted, i) ==
    IF i >= Len(extracted)
    THEN [tasks |-> T, raised |-> FALSE]
    ELSE IF ~extracted[i + 1].has_title
    THEN [tasks |-> T, raised |-> TRUE]
    ELSE CreateTasks(
             create_task(T, plan_id, extracted[i + 1].title,
                         Get(extracted[i + 1], "type", "code"),
                         PlanPriority(Len(extracted), i)),
             plan_id, extracted, i + 1)

\* --------------------------------------------------------------- inputs
NL == <<"\n">>
W_add == <<"a","d","d">>
W_Test == <<"T","e","s","t">>
W_push == <<"p","u","s","h">>
W_gen == <<"g","e","n","e","r","a","t","e"," ","s","p","e","c">>

\* "# P\n- [ ] Test\n* [x] push"
DocChecklist ==
    Flatten(<< <<"#"," ","P">>, NL, <<"-"," ","["," ","]"," ">>, W_Test, NL,
               <<"*"," ","[","x","]"," ">>, W_push >>)

\* "1. generate spec\n2. add\n"
DocNumbered ==
    Flatten(<< <<"1","."," ">>, W_gen, NL, <<"2","."," ">>, W_add, NL >>)

\* "## TODO\n- add\n"
DocSection ==
    Flatten(<< <<"#","#"," ","T","O","D","O">>, NL, <<"-"," ">>, W_add, NL >>)

\* "- [ ] add\n- [ ] Test\n- [ ] push\n"
DocLong ==
    Flatten(<< <<"-"," ","["," ","]"," ">>, W_add, NL,
               <<"-"," ","["," ","]"," ">>, W_Test, NL,
               <<"-"," ","["," ","]"," ">>, W_push, NL >>)

\* Free text, and white space only: no list item in either.
DocFree == W_add
DocBlank == <<" ", "\n">>
DocEmpty == <<>>

PlanDocs ==
    {DocChecklist, DocNumbered, DocSection, DocLong, DocFree, DocBlank,
     DocEmpty}

AiResult(success, kind, items) ==
    [success |-> success, kind |-> kind, items |-> items]

\* What run_claude can return to _ai_extract_tasks: a failure; text without
\* a JSON array; text whose array does not parse; a parsed object that is
\* no list; an array of task dicts, of a dict with an unregistered type, of
\* a dict without "type", or with an element that is no task dict.
AiResults ==
    {AiResult(FALSE, "none", <<>>),
     AiResult(TRUE, "text", <<>>),
     AiResult(TRUE, "malformed", <<>>),
     AiResult(TRUE, "dict", <<>>),
     AiResult(TRUE, "array", << TaskDict(W_add, "code") >>),
     AiResult(TRUE, "array", << TaskDict(W_add, "docs") >>),
     AiResult(TRUE, "list", << TaskDict(W_add, ABSENT) >>),
     AiResult(TRUE, "array",
              << TaskDict(W_add, "code"),
                 [title |-> <<>>, type |-> ABSENT, has_title |-> FALSE] >>)}

\* ---------------------------------------------------------------- state
VARIABLES
    tasks,       \* the tasks table, in rowid order
    plans,       \* the plans table
    executions,  \* the executions table
    ex,          \* ex[p]: the locals of invocation p and where it stands
    h,           \* h[p]: what invocation p has done since it was called
    cl_text,     \* the input of the function applied (SpecClassify, SpecExtract)
    cl_out,      \* the classifier's answer for cl_text
    projects,    \* the projects table
    knowledge,   \* the knowledge table
    resets       \* the ids retry_failed has reset, in order (SpecRetries)

vars ==
    <<tasks, plans, executions, ex, h, cl_text, cl_out, projects, knowledge,
      resets>>

IdleFrame ==
    [pc |-> "idle", op |-> "none", task_id |-> 0, stop_on_error |-> TRUE,
     loop_task |-> NoTask, task |-> NoTask, result |-> NoResult, e |-> ABSENT,
     results |-> <<>>, failed |-> <<>>, ret |-> NoResult]

\* History of one invocation: the tables as they were at the call, the ids
\* marked in_progress, the ids whose handler was invoked, whether a handler
\* invocation failed or raised, the task dicts ParsePlan extracted,
\* whether one of its store calls raised, the external calls its handlers
\* made (SpecSkills), and what the operator and git did in its ship handler.
NoHistory ==
    [pre |-> <<>>, nexec |-> 0, dispatched |-> <<>>, invoked |-> <<>>,
     hfail |-> FALSE, extracted |-> <<>>, sfail |-> FALSE,
     calls |-> <<>>, env |-> NULL]

Called == [NoHistory EXCEPT !.pre = tasks, !.nexec = Len(executions)]

Init ==
    /\ tasks = <<>>
    /\ plans = <<>>
    /\ executions = <<>>
    /\ ex = [p \in Procs |-> IdleFrame]
    /\ h = [p \in Procs |-> NoHistory]
    /\ cl_text = <<>>
    /\ cl_out = NULL
    /\ projects = <<>>
    /\ knowledge = <<>>
    /\ resets = <<>>

\* ------------------------------------------------------------- executor
Idle(p) == ex[p].pc = "idle"

\* A variant of AllReturn: the overall flag is the last result's.
AllReturn_last(results) ==
    [success |-> results = <<>> \/ results[Len(results)].success,
     tasks_executed |-> Len(results), results |-> results]

\* "success": all(r.get("success") for r in results), "tasks_executed": ...
AllReturn(results) ==
    [success |-> \A i \in 1..Len(results) : results[i].success,
     tasks_executed |-> Len(results), results |-> results]

\* {"task_id": task["id"], "title": task["title"], **result}
ResultRow(task, r) ==
    [task_id |-> task.id, title |-> task.title, success |-> r.success,
     output |-> r.output, error |-> r.error, message |-> r.message]

\* A variant of StopNow: the loop breaks on every failure.
StopNow_always(r, stop_on_error) == ~r.success

\* A variant of StopNow: the loop never breaks on a failure.
StopNow_never(r, stop_on_error) == FALSE

\* execute_all: `if not result.get("success") and stop_on_error: break`
StopNow(r, stop_on_error) == ~r.success /\ stop_on_error

\* The frame after execute_task returned r: to the caller of execute_task or
\* execute_next, or back into execute_all's loop.
AfterTask(f, r) ==
    IF f.op \in {"task", "next"}
    THEN [f EXCEPT !.pc = "done", !.ret = r]
    ELSE LET rs == Append(f.results, ResultRow(f.loop_task, r))
         IN  IF StopNow(r, f.stop_on_error)
             THEN [f EXCEPT !.pc = "done", !.results = rs,
                            !.ret = AllReturn(rs)]
             ELSE [f EXCEPT !.pc = "ea_next", !.results = rs]

\* A variant of FindTask: the first row whatever the id.
FindTask_first(rows, task_id) ==
    IF rows = <<>> THEN NoTask ELSE rows[1]

\* next((t for t in tasks if t["id"] == task_id), None)
FindTask(rows, task_id) ==
    IF \E i \in 1..Len(rows) : rows[i].id = task_id
    THEN rows[CHOOSE i \in 1..Len(rows) :
                  /\ rows[i].id = task_id
                  /\ \A j \in 1..(i - 1) : rows[j].id # task_id]
    ELSE NoTask

\* A variant of AlreadyCompleted: completed tasks are run again.
AlreadyCompleted_never(task) == FALSE

\* execute_task: `if task["status"] == "completed"`
AlreadyCompleted(task) == task.status = "completed"

\* The rows of T in one of the given statuses.
CountIn(T, statuses) ==
    Cardinality({i \in 1..Len(T) : T[i].status \in statuses})

\* The executions table has room for n more rows.
Room(n) == Len(executions) + n <= MaxExecs

\* A fresh frame for one call.
Frame(op, task_id, stop_on_error) ==
    [IdleFrame EXCEPT !.op = op, !.task_id = task_id,
                      !.stop_on_error = stop_on_error]

\* execute_task: tasks = db.get_tasks(); task = next(...); not found and
\* already completed return, otherwise the task is to be marked.
Fetched(f, T) ==
    LET task == FindTask(get_tasks(T, 0, NULL), f.task_id)
    IN  IF task = NoTask
        THEN \* f"Task {task_id} not found", written without the id
             AfterTask(f, Dict(FALSE, ABSENT, "Task not found", ABSENT))
        ELSE IF AlreadyCompleted(task)
        THEN AfterTask(f, Dict(TRUE, ABSENT, ABSENT, "Task already completed"))
        ELSE [f EXCEPT !.pc = "et_mark", !.task = task]

\* execute_all: task = db.get_next_task(); `if not task: break` and return,
\* otherwise self.execute_task(task["id"]).
Looped(f, T) ==
    LET task == get_next_task(T)
    IN  IF task = NoTask
        THEN [f EXCEPT !.pc = "done", !.ret = AllReturn(f.results)]
        ELSE [f EXCEPT !.pc = "et_fetch", !.loop_task = task,
                       !.task_id = task.id]

\* Agent.run(task_id=...) -> execute_task(task_id), up to its read of the
\* tasks table.
ExecuteTask(p, task_id) ==
    /\ Idle(p)
    /\ Room(1)
    /\ ex' = [ex EXCEPT ![p] = Fetched(Frame("task", task_id, TRUE), tasks)]
    /\ h' = [h EXCEPT ![p] = Called]
    /\ UNCHANGED <<tasks, plans, executions, cl_text, cl_out, projects, knowledge, resets>>

\* Agent.run() -> execute_next(), up to its get_next_task().
ExecuteNext(p) ==
    /\ Idle(p)
    /\ Room(1)
    /\ LET task == get_next_task(tasks)
       IN  ex' = [ex EXCEPT ![p] =
                IF task = NoTask
                THEN [Frame("next", 0, TRUE) EXCEPT !.pc = "done",
                          !.ret = Dict(TRUE, ABSENT, ABSENT, "No pending tasks")]
                ELSE [Frame("next", task.id, TRUE) EXCEPT !.pc = "et_fetch",
                          !.loop_task = task]]
    /\ h' = [h EXCEPT ![p] = Called]
    /\ UNCHANGED <<tasks, plans, executions, cl_text, cl_out, projects, knowledge, resets>>

\* execute_all(stop_on_error), up to its first get_next_task().
ExecuteAll(p, stop_on_error) ==
    /\ Idle(p)
    /\ Room(CountIn(tasks, {"pending"}))
    /\ ex' = [ex EXCEPT ![p] = Looped(Frame("all", 0, stop_on_error), tasks)]
    /\ h' = [h EXCEPT ![p] = Called]
    /\ UNCHANGED <<tasks, plans, executions, cl_text, cl_out, projects, knowledge, resets>>

\* retry_failed(), up to failed = db.get_tasks(status="failed").
RetryFailed(p) ==
    /\ Idle(p)
    /\ Room(CountIn(tasks, {"pending", "failed"}))
    /\ LET failed == get_tasks(tasks, 0, "failed")
       IN  ex' = [ex EXCEPT ![p] =
                IF failed = <<>>
                THEN [Frame("retry", 0, TRUE) EXCEPT !.pc = "done",
                          !.ret = Dict(TRUE, ABSENT, ABSENT, "No failed tasks")]
                ELSE [Frame("retry", 0, TRUE) EXCEPT !.pc = "rf_reset",
                          !.failed = failed]]
    /\ h' = [h EXCEPT ![p] = Called]
    /\ UNCHANGED <<tasks, plans, executions, cl_text, cl_out, projects, knowledge, resets>>

\* execute_all: the loop's next get_next_task().
EaNext(p) ==
    /\ ex[p].pc = "ea_next"
    /\ ex' = [ex EXCEPT ![p] = Looped(@, tasks)]
    /\ UNCHANGED <<tasks, plans, executions, h, cl_text, cl_out, projects, knowledge, resets>>

\* execute_task called by execute_next or execute_all: its read of the table.
EtFetch(p) ==
    /\ ex[p].pc = "et_fetch"
    /\ ex' = [ex EXCEPT ![p] = Fetched(@, tasks)]
    /\ UNCHANGED <<tasks, plans, executions, h, cl_text, cl_out, projects, knowledge, resets>>

\* execute_task: mark in progress, then look the skill up.
EtMark(p) ==
    /\ ex[p].pc = "et_mark"
    /\ tasks' = update_task(tasks, ex[p].task_id, "in_progress", NULL)
    /\ ex' = [ex EXCEPT ![p].pc =
                IF ex[p].task.task_type \in SkillTypes
                THEN "et_run" ELSE "et_unknown"]
    /\ h' = [h EXCEPT ![p].dispatched = Append(@, ex[p].task_id)]
    /\ UNCHANGED <<plans, executions, cl_text, cl_out, projects, knowledge, resets>>

\* A variant of EtUnknown: the task is put back to pending.
EtUnknown_pending(p) ==
    /\ ex[p].pc = "et_unknown"
    /\ tasks' = update_task(tasks, ex[p].task_id, "pending", "Unknown task type")
    /\ ex' = [ex EXCEPT ![p] =
                AfterTask(@, Dict(FALSE, ABSENT, "Unknown task type", ABSENT))]
    /\ UNCHANGED <<plans, executions, h, cl_text, cl_out, projects, knowledge, resets>>

\* execute_task: `if not skill:` mark failed and return.
EtUnknown(p) ==
    /\ ex[p].pc = "et_unknown"
    /\ tasks' = update_task(tasks, ex[p].task_id, "failed", "Unknown task type")
    /\ ex' = [ex EXCEPT ![p] =
                AfterTask(@, Dict(FALSE, ABSENT, "Unknown task type", ABSENT))]
    /\ UNCHANGED <<plans, executions, h, cl_text, cl_out, projects, knowledge, resets>>

\* execute_task: result = skill.execute(task), which returns or raises, with
\* one of the given outcomes.
RunWith(p, outcomes) ==
    /\ ex[p].pc = "et_run"
    /\ \E o \in outcomes :
          /\ ex' = [ex EXCEPT ![p] =
                IF o.raised
                THEN [@ EXCEPT !.pc = "et_except", !.e = o.exc]
                ELSE [@ EXCEPT !.pc = "et_log", !.result = o.result]]
          /\ h' = [h EXCEPT ![p].invoked = Append(@, ex[p].task_id),
                            ![p].hfail = @ \/ o.raised \/ ~o.result.success]
    /\ projects' = IF ex[p].task.task_type = "test"
                   THEN get_or_create_project(projects, ProjectPath).table
                   ELSE projects
    /\ UNCHANGED <<tasks, plans, executions, cl_text, cl_out, knowledge, resets>>

\* execute_task: result = skill.execute(task), which returns or raises.
EtRun(p) == RunWith(p, HandlerOutcomes(ex[p].task))

\* execute_task: db.log_execution(...)
EtLog(p) ==
    /\ ex[p].pc = "et_log"
    /\ LET result == ex[p].result
       IN  executions' = log_execution(executions, ex[p].task_id,
               ex[p].task.task_type,
               Str(Get(result, "output", Get(result, "message", ""))),
               result.success)
    /\ ex' = [ex EXCEPT ![p].pc = "et_update"]
    /\ UNCHANGED <<tasks, plans, h, cl_text, cl_out, projects, knowledge, resets>>

\* execute_task: the final update_task, and `return result`.
EtUpdate(p) ==
    /\ ex[p].pc = "et_update"
    /\ LET result == ex[p].result
       IN  tasks' = IF result.success
                    THEN update_task(tasks, ex[p].task_id, "completed",
                                     Str(Get(result, "output", "")))
                    ELSE update_task(tasks, ex[p].task_id, "failed",
                                     Get(result, "error", "Failed"))
    /\ ex' = [ex EXCEPT ![p] = AfterTask(@, @.result)]
    /\ UNCHANGED <<plans, executions, h, cl_text, cl_out, projects, knowledge, resets>>

\* A variant of EtExcept: the exception is reported without a write to the
\* task.
EtExcept_report(p) ==
    /\ ex[p].pc = "et_except"
    /\ ex' = [ex EXCEPT ![p] =
                AfterTask(@, Dict(FALSE, ABSENT, @.e, ABSENT))]
    /\ UNCHANGED <<tasks, plans, executions, h, cl_text, cl_out, projects,
                   knowledge, resets>>

\* execute_task: `except Exception as e:` mark failed and return.
EtExcept(p) ==
    /\ ex[p].pc = "et_except"
    /\ tasks' = update_task(tasks, ex[p].task_id, "failed", ex[p].e)
    /\ ex' = [ex EXCEPT ![p] =
                AfterTask(@, Dict(FALSE, ABSENT, @.e, ABSENT))]
    /\ UNCHANGED <<plans, executions, h, cl_text, cl_out, projects, knowledge, resets>>

\* A variant of ResetRest: only the first failed task is reset.
ResetRest_stop(failed) == <<>>

\* retry_failed: what `for task in failed` still has to reset after its
\* first element.
ResetRest(failed) == Tail(failed)

\* retry_failed: one round of `for task in failed: update_task(.., "pending")`;
\* after the last one, execute_all() with its default stop_on_error.
RfReset(p) ==
    /\ ex[p].pc = "rf_reset"
    /\ tasks' = update_task(tasks, Head(ex[p].failed).id, "pending", NULL)
    /\ ex' = [ex EXCEPT ![p] =
                IF ResetRest(@.failed) = <<>>
                THEN [@ EXCEPT !.pc = "ea_next", !.failed = <<>>,
                          !.results = <<>>, !.stop_on_error = TRUE]
                ELSE [@ EXCEPT !.failed = ResetRest(ex[p].failed)]]
    /\ UNCHANGED <<plans, executions, h, cl_text, cl_out, projects, knowledge, resets>>

\* The invocation has returned to its caller.
Return(p) ==
    /\ ex[p].pc = "done"
    /\ ex' = [ex EXCEPT ![p] = IdleFrame]
    /\ h' = [h EXCEPT ![p] = NoHistory]
    /\ UNCHANGED <<tasks, plans, executions, cl_text, cl_out, projects, knowledge, resets>>

\* A reset that also deletes the knowledge entries.
ResetAll_knowledge(p) ==
    /\ Idle(p)
    /\ executions' = <<>>
    /\ tasks' = <<>>
    /\ plans' = <<>>
    /\ knowledge' = <<>>
    /\ ex' = [ex EXCEPT ![p] = [IdleFrame EXCEPT !.pc = "done", !.op = "reset",
                  !.ret = Dict(TRUE, ABSENT, ABSENT,
                               "All tasks and plans cleared")]]
    /\ h' = [h EXCEPT ![p] = Called]
    /\ UNCHANGED <<cl_text, cl_out, projects, resets>>

\* Agent.reset() -> db.reset_tasks()
ResetAll(p) ==
    /\ Idle(p)
    /\ executions' = <<>>
    /\ tasks' = <<>>
    /\ plans' = <<>>
    /\ ex' = [ex EXCEPT ![p] = [IdleFrame EXCEPT !.pc = "done", !.op = "reset",
                  !.ret = Dict(TRUE, ABSENT, ABSENT,
                               "All tasks and plans cleared")]]
    /\ h' = [h EXCEPT ![p] = Called]
    /\ UNCHANGED <<cl_text, cl_out, projects, knowledge, resets>>

\* PlannerAgent.parse_plan(content), with what the assistant would answer.
ParsePlan(p, content, ai) ==
    LET title == PlanTitle(content)
        plan_id == Len(plans) + 1
        extracted == _extract_tasks(content, ai)
        made == CreateTasks(tasks, plan_id, extracted, 0)
        task_ids == [i \in 1..(Len(made.tasks) - Len(tasks)) |-> Len(tasks) + i]
    IN  /\ Idle(p)
        /\ Len(plans) < MaxPlans
        /\ Len(tasks) + Len(extracted) <= MaxTasks
        /\ plans' = create_plan(plans, title, NULL)
        /\ tasks' = made.tasks
        /\ ex' = [ex EXCEPT ![p] = [IdleFrame EXCEPT !.pc = "done",
                      !.op = "plan",
                      !.ret = [success |-> ~made.raised, raised |-> made.raised,
                               plan_id |-> plan_id, title |-> title,
                               task_count |-> Len(task_ids),
                               task_ids |-> task_ids]]]
        /\ h' = [h EXCEPT ![p] = [Called EXCEPT !.extracted = extracted]]
        /\ projects' = get_or_create_project(projects, ProjectPath).table
        /\ UNCHANGED <<executions, cl_text, cl_out, knowledge, resets>>

\* The executor's operations and reset, one store call or handler call at a
\* step.
Execute(p) ==
    \/ \E task_id \in 1..(MaxTasks + 1) : ExecuteTask(p, task_id)
    \/ ExecuteNext(p)
    \/ \E stop_on_error \in BOOLEAN : ExecuteAll(p, stop_on_error)
    \/ RetryFailed(p)
    \/ EaNext(p)
    \/ EtFetch(p)
    \/ EtMark(p)
    \/ EtUnknown(p)
    \/ EtRun(p)
    \/ EtLog(p)
    \/ EtUpdate(p)
    \/ EtExcept(p)
    \/ RfReset(p)
    \/ Return(p)
    \/ ResetAll(p)

Step(p) ==
    \/ Execute(p)
    \/ \E content \in PlanDocs, ai \in AiResults : ParsePlan(p, content, ai)

\* One invocation at a time: the planner, the executor and reset, called
\* one after another.
Next == Step(1)

Spec == Init /\ [][Next]_vars

\* ------------------------------------------------- the store, called raw
\* db.create_task called directly.
CreateTask(p, plan_id, task_type, priority) ==
    /\ Idle(p)
    /\ Len(tasks) < MaxTasks
    /\ tasks' = create_task(tasks, plan_id, W_add, task_type, priority)
    /\ UNCHANGED <<plans, executions, ex, h, cl_text, cl_out, projects, knowledge, resets>>

\* db.update_task(task_id, status=status) called directly.
UpdateTaskStatus(p, task_id, status) ==
    /\ Idle(p)
    /\ task_id \in 1..Len(tasks)
    /\ tasks[task_id].status # status
    /\ tasks' = update_task(tasks, task_id, status, NULL)
    /\ UNCHANGED <<plans, executions, ex, h, cl_text, cl_out, projects, knowledge, resets>>

NextStore ==
    \/ Execute(1)
    \/ \E task_type \in {"code", "test", "docs"}, priority \in {0, 1} :
           CreateTask(1, 1, task_type, priority)
    \/ \E task_id \in 1..MaxTasks, status \in Statuses :
           UpdateTaskStatus(1, task_id, status)

\* The executor and reset, and the store's create_task and update_task
\* called directly, one call after another.
SpecStore == Init /\ [][NextStore]_vars

\* --------------------------------------------------------------- claims
Ids == 1..Len(tasks)

InStatus(T, status) == {i \in 1..Len(T) : T[i].status = status}

Returned_(p, op) == ex[p].pc = "done" /\ ex[p].op = op

\* C1: in every state reachable through create_task, update_task, the
\* executor's operations and reset, every task's status is one of the four
\* statuses and completed_at is set exactly when the status is completed.
C1_StatusAndCompletedAt ==
    \A i \in Ids :
        /\ tasks[i].status \in Statuses
        /\ (tasks[i].completed_at # NULL) <=> (tasks[i].status = "completed")

LegalPairs ==
    {<<"pending", "in_progress">>, <<"in_progress", "completed">>,
     <<"in_progress", "failed">>, <<"failed", "pending">>}

\* The id of the task whose status invocation p writes in its next step
\* (0 when its next step writes none).
WriteTarget(p) ==
    IF ex[p].pc \in {"et_mark", "et_unknown", "et_update", "et_except"}
    THEN ex[p].task_id
    ELSE IF ex[p].pc = "rf_reset" THEN Head(ex[p].failed).id
    ELSE 0

\* C2: every status write of the executor is one of pending->in_progress,
\* in_progress->completed, in_progress->failed, failed->pending, and
\* failed->pending is written only by retry_failed's reset.
C2_LegalTransitions ==
    [][\A p \in Procs :
          (WriteTarget(p) \in Ids /\ ex'[p] # ex[p]) =>
              LET i == WriteTarget(p)
                  pair == <<tasks[i].status, tasks'[i].status>>
              IN  /\ pair \in LegalPairs
                  /\ pair = <<"failed", "pending">> => ex[p].pc = "rf_reset"]_vars

Failures(results) == {k \in 1..Len(results) : ~results[k].success}

Range(seq) == {seq[k] : k \in 1..Len(seq)}

\* C3: execute_all with stop_on_error stops at the first failing task: once
\* a result is a failure the call has returned (no further dispatch, no
\* further handler call), the failure is the last result and the last task
\* dispatched, the tasks that were pending at the call and were not
\* dispatched are still pending, success is false and tasks_executed is the
\* number of tasks dispatched.
C3_StopOnError ==
    \A p \in Procs :
        (ex[p].op = "all" /\ ex[p].stop_on_error
            /\ Failures(ex[p].results) # {}) =>
            /\ ex[p].pc = "done"
            /\ Failures(ex[p].results) = {Len(ex[p].results)}
            /\ h[p].dispatched =
                   [k \in 1..Len(ex[p].results) |-> ex[p].results[k].task_id]
            /\ Range(h[p].invoked) \subseteq Range(h[p].dispatched)
            /\ \A i \in InStatus(h[p].pre, "pending") \ Range(h[p].dispatched) :
                   tasks[i].status = "pending"
            /\ ex[p].ret.success = FALSE
            /\ ex[p].ret.tasks_executed = Len(h[p].dispatched)

\* C3's case: execute_all(stop_on_error=True) has returned after a failure
\* and a task that was pending is left pending.
C3_Witness ==
    \E p \in Procs :
        /\ Returned_(p, "all") /\ ex[p].stop_on_error
        /\ Failures(ex[p].results) # {}
        /\ InStatus(h[p].pre, "pending") \ Range(h[p].dispatched) # {}

\* retry_failed has returned after resetting the tasks that were failed.
Retried(p) == Returned_(p, "retry") /\ InStatus(h[p].pre, "failed") # {}

RetryOutcome(p) ==
    /\ InStatus(tasks, "failed") = {}
    /\ InStatus(h[p].pre, "failed") \subseteq InStatus(tasks, "completed")

Untouched(p) ==
    /\ tasks = h[p].pre
    /\ Len(executions) = h[p].nexec
    /\ h[p].dispatched = <<>>
    /\ h[p].invoked = <<>>

\* C5: execute_task on a task that is completed returns success and leaves
\* the tasks and the executions as they were, without dispatching or calling
\* a handler.
C5_CompletedIsNoOp ==
    \A p \in Procs :
        (/\ Returned_(p, "task")
         /\ ex[p].task_id \in 1..Len(h[p].pre)
         /\ h[p].pre[ex[p].task_id].status = "completed")
            => /\ ex[p].ret.success = TRUE
               /\ Untouched(p)

\* C5's case: execute_task has returned for a task that was completed.
C5_Witness ==
    \E p \in Procs :
        /\ Returned_(p, "task")
        /\ ex[p].task_id \in 1..Len(h[p].pre)
        /\ h[p].pre[ex[p].task_id].status = "completed"
        /\ Len(executions) > 0

\* C6: execute_task with an id no task has returns the failure
\* "Task not found" and changes no task and no execution.
C6_TaskNotFound ==
    \A p \in Procs :
        (Returned_(p, "task") /\ ex[p].task_id \notin 1..Len(h[p].pre))
            => /\ ex[p].ret.success = FALSE
               /\ ex[p].ret.error = "Task not found"
               /\ Untouched(p)

\* C6's case: execute_task has returned for an unknown id while the store
\* holds a task that could have been run.
C6_Witness ==
    \E p \in Procs :
        /\ Returned_(p, "task")
        /\ ex[p].task_id \notin 1..Len(h[p].pre)
        /\ InStatus(h[p].pre, "pending") # {}

\* Task i of table T is the one the selection rule names: pending, of the
\* highest priority among the pending tasks of all plans, and of the
\* smallest id among those.
Selected(T, i) ==
    /\ i \in InStatus(T, "pending")
    /\ \A j \in InStatus(T, "pending") :
           \/ T[j].priority < T[i].priority
           \/ T[j].priority = T[i].priority /\ i <= j

\* C7: get_next_task returns no task exactly when no task is pending, and
\* otherwise the pending task of the highest priority, the smallest id
\* among equals, whatever plan it belongs to.
C7_NextPendingTask ==
    LET t == get_next_task(tasks)
    IN  IF InStatus(tasks, "pending") = {}
        THEN t = NoTask
        ELSE /\ t.id \in Ids
             /\ t = tasks[t.id]
             /\ Selected(tasks, t.id)

\* C7's case: two plans each hold a pending task of the same priority and
\* the one created first is returned.
C7_Witness ==
    \E i, j \in InStatus(tasks, "pending") :
        /\ tasks[i].plan_id # tasks[j].plan_id
        /\ tasks[i].priority = tasks[j].priority
        /\ i < j
        /\ get_next_task(tasks).id = i

\* C8: with one invocation running, at most one task is in_progress in any
\* state, and the task execute_next or execute_all is about to mark
\* in_progress is at that moment the
\* pending task of the highest priority and smallest id.
C8_OneInProgress ==
    /\ Cardinality(InStatus(tasks, "in_progress")) <= 1
    /\ \A p \in Procs :
           (ex[p].op \in {"next", "all", "retry"} /\ ex[p].pc = "et_mark")
               => Selected(tasks, ex[p].task_id)

\* C8's case: execute_all is running one task while another is pending.
C8_Witness ==
    \E p \in Procs :
        /\ ex[p].op = "all"
        /\ ex[p].pc = "et_run"
        /\ InStatus(tasks, "in_progress") = {ex[p].task_id}
        /\ InStatus(tasks, "pending") # {}

\* parse_plan has returned a plan made of n extracted tasks.
Parsed(p, n) ==
    /\ Returned_(p, "plan")
    /\ ~ex[p].ret.raised
    /\ Len(h[p].extracted) = n

\* The n tasks parse_plan created are the extracted ones in order, pending,
\* with priorities n down to 1.
CreatedInOrder(p, n) ==
    /\ Len(tasks) = Len(h[p].pre) + n
    /\ \A i \in 1..Len(h[p].pre) : tasks[i] = h[p].pre[i]
    /\ \A k \in 1..n :
           LET t == tasks[Len(h[p].pre) + k]
           IN  /\ t.status = "pending"
               /\ t.priority = n - k + 1
               /\ t.title = h[p].extracted[k].title
               /\ t.plan_id = ex[p].ret.plan_id

\* C9 as stated: parse_plan on a text from which n tasks are extracted
\* creates exactly n tasks, pending, in extraction order with priorities
\* n..1, and get_next_task then returns the first extracted task.
C9_AsStated ==
    \A p \in Procs : \A n \in 0..MaxTasks :
        Parsed(p, n) =>
            /\ CreatedInOrder(p, n)
            /\ n > 0 => get_next_task(tasks).id = Len(h[p].pre) + 1

\* C9 amended: the same, with get_next_task returning the first extracted
\* task provided no task that was pending before the call has a priority of
\* n or more.
C9_ParsePlanOrder ==
    \A p \in Procs : \A n \in 0..MaxTasks :
        Parsed(p, n) =>
            /\ CreatedInOrder(p, n)
            /\ (/\ n > 0
                /\ \A i \in InStatus(h[p].pre, "pending") :
                       h[p].pre[i].priority < n)
                   => get_next_task(tasks).id = Len(h[p].pre) + 1

\* C9's case: parse_plan has created two tasks and the first extracted is
\* the next to run.
C9_Witness ==
    \E p \in Procs :
        /\ Parsed(p, 2)
        /\ tasks[Len(h[p].pre) + 1].priority = 2
        /\ get_next_task(tasks).id = Len(h[p].pre) + 1

\* ------------------------------------------------- the classifier alone
\* Pieces of task lines: the keywords in mixed case, words that hold no
\* keyword, a keyword cut short and a blank.
Fragments ==
    {<<"T","e","s","t">>,
     <<"s","p","e","c">>,
     <<"V","E","R","I","F","Y">>,
     <<"c","o","m","m","i","t">>,
     <<"P","u","s","h">>,
     <<"s","h","i","p">>,
     <<"d","e","p","l","o","y">>,
     <<"R","e","l","e","a","s","e">>,
     <<"a","d","d">>,
     <<"l","a">>,
     <<"t","e","s">>,
     <<" ">>}

\* The three lines the specification classifies by way of example.
ExampleLines ==
    {<<"W","r","i","t","e"," ","u","n","i","t"," ","t","e","s","t","s"," ","f","o","r"," ","p","a","r","s","e","r">>,
     <<"C","o","m","m","i","t"," ","a","n","d"," ","p","u","s","h"," ","c","h","a","n","g","e","s">>,
     <<"A","d","d"," ","r","e","t","r","y"," ","l","o","g","i","c"," ","t","o"," ","c","l","i","e","n","t">>}

\* The lines made of up to MaxFrags fragments, and the example lines.
ClassifyInputs ==
    ExampleLines \cup
    UNION {{Flatten(fs) : fs \in [1..n -> Fragments]} : n \in 1..MaxFrags}

InitClassify ==
    /\ tasks = <<>>
    /\ plans = <<>>
    /\ executions = <<>>
    /\ ex = [p \in Procs |-> IdleFrame]
    /\ h = [p \in Procs |-> NoHistory]
    /\ cl_text \in ClassifyInputs
    /\ cl_out = NULL
    /\ projects = <<>>
    /\ knowledge = <<>>
    /\ resets = <<>>

\* One call of _classify_task on the line.
Classify ==
    /\ cl_out = NULL
    /\ cl_out' = _classify_task(cl_text).type
    /\ UNCHANGED <<tasks, plans, executions, ex, h, cl_text, projects, knowledge, resets>>

NextClassify == Classify

\* _classify_task applied once to each line of ClassifyInputs.
SpecClassify == InitClassify /\ [][NextClassify]_vars

\* The line holds one of the words somewhere, whatever the case of its
\* letters.
HoldsWord(line, words) ==
    \E kw \in words : \E at \in 0..Len(line) :
        /\ at + Len(kw) <= Len(line)
        /\ \A j \in 1..Len(kw) : LowerChar(line[at + j]) = kw[j]

\* C10: _classify_task answers for every line, and its answer is test when
\* the line holds test, spec or verify in any case (whether or not it also
\* holds a ship keyword), else ship when it holds commit, push, ship, deploy
\* or release, else code.
C10_Classification ==
    cl_out # NULL =>
        /\ cl_out \in {"test", "ship", "code"}
        /\ cl_out = "test" <=> HoldsWord(cl_text, TestWords)
        /\ cl_out = "ship" <=>
               (~HoldsWord(cl_text, TestWords) /\ HoldsWord(cl_text, ShipWords))

\* C10's case: a line holding a test keyword in capitals after a ship
\* keyword has been classified test.
C10_Witness ==
    /\ cl_out = "test"
    /\ HoldsWord(cl_text, TestWords)
    /\ HoldsWord(cl_text, ShipWords)
    /\ \E i \in 1..Len(cl_text) : cl_text[i] # LowerChar(cl_text[i])

\* ------------------------------------------- the handlers at full width
\* What run_claude can return: also a non-zero exit that wrote nothing, so
\* that `result.stderr or result.stdout` is empty.
WideClaudeResults ==
    ClaudeResults \cup {Dict(FALSE, ABSENT, "", ABSENT)}

\* test_framework: none detected, pytest, one _get_test_command has no
\* command for.
WideFrameworks == {"", "pytest", "nose"}

\* subprocess.run of the test command: also a failing run that wrote nothing
\* to stderr, a timeout and an OSError.
WideRunnerResults ==
    RunnerResults \cup
    {[kind |-> "exit", returncode |-> 1, stdout |-> "out", stderr |-> ""],
     [kind |-> "timeout", returncode |-> 0, stdout |-> "", stderr |-> ""],
     [kind |-> "oserror", returncode |-> 0, stdout |-> "", stderr |-> ""]}

\* Every course interactive_ship can take.
WideShipEnvs ==
    [status : {"error", "clean", "dirty"},
     action : {"commit", "commit-push", "skip"},
     message : {"", "msg"},
     add_ok : BOOLEAN, commit_ok : BOOLEAN, confirm : BOOLEAN,
     push_ok : BOOLEAN, stderr : {"", "err"}]

\* str(e) of an exception a handler raises: some text, or none (an
\* exception raised without arguments).
ExceptionTexts == {"exc", ""}

WideCoder == {CoderExecute(NoTask, r) : r \in WideClaudeResults}
WideRunTests ==
    {run_tests(f, run) : f \in WideFrameworks, run \in WideRunnerResults}
WideShip == {interactive_ship(e) : e \in WideShipEnvs}

\* skill.execute(task): every dict the skill of the task's type can return,
\* and every exception text it can raise with.
WideOutcomes(task) ==
    {Raised(text) : text \in ExceptionTexts} \cup
    {Returned(r) :
        r \in IF task.task_type = "code" THEN WideCoder
              ELSE IF task.task_type = "test"
              THEN IF Contains(Lower(task.title), Generate)
                   THEN WideClaudeResults ELSE WideRunTests
              ELSE WideShip}

EtRunWide(p) == RunWith(p, WideOutcomes(ex[p].task))

NextHandlers ==
    \/ Execute(1)
    \/ EtRunWide(1)
    \/ \E task_type \in {"code", "test", "ship", "docs"} :
           CreateTask(1, 1, task_type, 1)

\* The executor over tasks of every type, with every outcome the handlers
\* have.
SpecHandlers == Init /\ [][NextHandlers]_vars

\* Invocation p has returned from execute_task or execute_next after
\* calling the handler of its task.
Dispatched(p) ==
    /\ ex[p].pc = "done"
    /\ ex[p].op \in {"task", "next"}
    /\ h[p].invoked # <<>>

\* C11: a task that is completed or failed has a result that is not null,
\* whatever the handler returned or raised.
C11_ResultNeverNull ==
    \A i \in Ids :
        tasks[i].status \in {"completed", "failed"} => tasks[i].result # NULL

\* The result column holds the text: the text itself, an empty text being
\* stored as no result.
Stored(result, text) == result = text \/ (text = "" /\ result = NULL)

\* C12: when execute_task has dispatched a task and returned, the task's
\* stored result is what that dispatch returned: the handler's output on
\* success, its error on failure, also when the task carried a result from
\* an earlier attempt.
C12_StoredOutcome ==
    \A p \in Procs :
        Dispatched(p) =>
            LET r == ex[p].ret
                text == IF r.success THEN Str(Get(r, "output", ""))
                        ELSE Get(r, "error", "Failed")
            IN  Stored(tasks[ex[p].task_id].result, text)

\* C13: an execute_task call that invoked a handler has appended exactly one
\* execution row, for its task, whether the handler returned success,
\* returned failure or raised.
C13_OneExecutionPerDispatch ==
    \A p \in Procs :
        Dispatched(p) =>
            /\ Len(executions) = h[p].nexec + 1
            /\ executions[Len(executions)].task_id = ex[p].task_id

\* The handler of invocation p's task raised.
HandlerRaised(p) == ex[p].pc = "done" /\ ex[p].e # ABSENT

\* C14: when a handler raises, execute_task returns a failure instead of
\* raising, its task is failed with the exception text as result, and an
\* execute_all(stop_on_error=False) around it runs on until no task is
\* pending.
C14_HandlerExceptionCaught ==
    \A p \in Procs :
        HandlerRaised(p) =>
            /\ ex[p].op \in {"task", "next"} =>
                   /\ ex[p].ret.success = FALSE
                   /\ tasks[ex[p].task_id].status = "failed"
                   /\ Stored(tasks[ex[p].task_id].result, ex[p].e)
            /\ (ex[p].op = "all" /\ ~ex[p].stop_on_error) =>
                   /\ ex[p].ret.success = FALSE
                   /\ InStatus(tasks, "pending") = {}

\* The task types for which the specification names a handler.
HandlerTypes == {"code", "test", "ship"}

\* The tasks that were failed when invocation p was called and whose type
\* has no handler.
FailedUnknown(p) ==
    {i \in InStatus(h[p].pre, "failed") : h[p].pre[i].task_type \notin HandlerTypes}

\* Task i is failed for want of a handler.
FailedAsUnknown(i) ==
    /\ tasks[i].status = "failed"
    /\ tasks[i].result = "Unknown task type"

\* execute_task on a task that is not completed and whose type has no
\* handler: the task is failed with the unknown-type reason, the call
\* returns that failure, no handler is called and no execution is logged.
UnknownTypeFails(p) ==
    (/\ Returned_(p, "task")
     /\ ex[p].task_id \in 1..Len(h[p].pre)
     /\ h[p].pre[ex[p].task_id].status # "completed"
     /\ h[p].pre[ex[p].task_id].task_type \notin HandlerTypes)
        => /\ FailedAsUnknown(ex[p].task_id)
           /\ ex[p].ret.success = FALSE
           /\ ex[p].ret.error = "Unknown task type"
           /\ h[p].invoked = <<>>
           /\ Len(executions) = h[p].nexec

StoreError == "database is locked"

\* A store call of invocation p raises at a point where no try block is
\* open (marking in_progress, the update of the unknown-type branch, the
\* update inside the except branch): the exception leaves execute_task and
\* its callers.
RaiseOutside(p, pcs) ==
    /\ ex[p].pc \in pcs
    /\ ex' = [ex EXCEPT ![p].pc = "aborted", ![p].e = StoreError]
    /\ h' = [h EXCEPT ![p].sfail = TRUE]
    /\ UNCHANGED <<tasks, plans, executions, cl_text, cl_out, projects, knowledge, resets>>

\* A store call of invocation p raises inside the try block (log_execution,
\* the final update_task): `except Exception as e` receives it.
RaiseInside(p, pcs) ==
    /\ ex[p].pc \in pcs
    /\ ex' = [ex EXCEPT ![p].pc = "et_except", ![p].e = StoreError]
    /\ h' = [h EXCEPT ![p].sfail = TRUE]
    /\ UNCHANGED <<tasks, plans, executions, cl_text, cl_out, projects, knowledge, resets>>

EtMarkFail(p) == RaiseOutside(p, {"et_mark"})
EtUnknownFail(p) == RaiseOutside(p, {"et_unknown"})
EtExceptFail(p) == RaiseOutside(p, {"et_except"})
EtLogFail(p) == RaiseInside(p, {"et_log"})
EtUpdateFail(p) == RaiseInside(p, {"et_update"})

\* The exception has left the operation: the invocation is over.
Propagate(p) ==
    /\ ex[p].pc = "aborted"
    /\ ex' = [ex EXCEPT ![p] = IdleFrame]
    /\ h' = [h EXCEPT ![p] = NoHistory]
    /\ UNCHANGED <<tasks, plans, executions, cl_text, cl_out, projects, knowledge, resets>>

NextStoreFail ==
    \/ Execute(1)
    \/ \E task_type \in {"code", "test", "docs"} : CreateTask(1, 1, task_type, 1)
    \/ EtMarkFail(1)
    \/ EtUnknownFail(1)
    \/ EtExceptFail(1)
    \/ EtLogFail(1)
    \/ EtUpdateFail(1)
    \/ Propagate(1)

\* The executor over a store whose calls may raise.
SpecStoreFail == Init /\ [][NextStoreFail]_vars

\* C16: once a store call made by execute_task has raised, the exception is
\* on its way out of the operation: the executor does not catch it and
\* writes nothing more for the task.
C16_StoreFailurePropagates ==
    \A p \in Procs : h[p].sfail => ex[p].pc = "aborted"

\* ------------------------------------------------- projects and knowledge
KnowledgeKeys == {"test_framework", "has_git"}
KnowledgeValues == {"pytest", ""}

\* db.get_or_create_project(), called on its own.
GetOrCreateProject(p) ==
    /\ Idle(p)
    /\ projects' = get_or_create_project(projects, ProjectPath).table
    /\ UNCHANGED <<tasks, plans, executions, ex, h, cl_text, cl_out, knowledge, resets>>

\* db.set_knowledge(key, value, "structure")
SetKnowledge(p, key, value) ==
    LET proj == get_or_create_project(projects, ProjectPath)
    IN  /\ Idle(p)
        /\ projects' = proj.table
        /\ knowledge' = set_knowledge(knowledge, proj.id, key, value, "structure")
        /\ UNCHANGED <<tasks, plans, executions, ex, h, cl_text, cl_out, resets>>

NextReset ==
    \/ \E content \in {DocChecklist, DocFree}, ai \in AiResults :
          ParsePlan(1, content, ai)
    \/ ExecuteNext(1)
    \/ \E stop_on_error \in BOOLEAN : ExecuteAll(1, stop_on_error)
    \/ EaNext(1)
    \/ EtFetch(1)
    \/ EtMark(1)
    \/ EtUnknown(1)
    \/ EtRun(1)
    \/ EtLog(1)
    \/ EtUpdate(1)
    \/ EtExcept(1)
    \/ Return(1)
    \/ ResetAll(1)
    \/ GetOrCreateProject(1)
    \/ \E key \in KnowledgeKeys, value \in KnowledgeValues :
          SetKnowledge(1, key, value)

\* Plans, their execution and resets over a store that also holds the
\* project record and its knowledge.
SpecReset == Init /\ [][NextReset]_vars

\* C17: a step that deletes a task, a plan or an execution (only ResetAll
\* does) leaves zero tasks, zero plans and zero executions, and leaves the
\* projects and knowledge tables exactly as they were.
C17_ResetAll ==
    [][(Len(tasks') < Len(tasks) \/ Len(plans') < Len(plans)
            \/ Len(executions') < Len(executions) \/ ex'[1].op = "reset")
        => /\ tasks' = <<>>
           /\ plans' = <<>>
           /\ executions' = <<>>
           /\ projects' = projects
           /\ knowledge' = knowledge]_vars

\* ResetAll has just cleared a store that held tasks, a plan and executions,
\* next to a project record with knowledge.
C17_Witness ==
    /\ Returned_(1, "reset")
    /\ h[1].pre # <<>>
    /\ h[1].nexec > 0
    /\ tasks = <<>> /\ plans = <<>> /\ executions = <<>>
    /\ projects # <<>>
    /\ Len(knowledge) = 2

\* ------------------------------------------------------------ execute_all
\* The task ids of a list of per-task results.
TaskIds(results) == [i \in 1..Len(results) |-> results[i].task_id]

\* C18: execute_all returns one result per dispatched task in dispatch
\* order, tasks_executed equal to the length of that list, and a success
\* flag that is the conjunction of the results' success flags, true when no
\* task was pending at the call.
C18_ExecuteAllResult ==
    \A p \in Procs :
        Returned_(p, "all") =>
            LET r == ex[p].ret
            IN  /\ TaskIds(r.results) = h[p].dispatched
                /\ r.tasks_executed = Len(h[p].dispatched)
                /\ r.success = (\A i \in 1..Len(r.results) : r.results[i].success)
                /\ InStatus(h[p].pre, "pending") = {}
                      => r.success /\ r.results = <<>>

\* execute_all has returned after two tasks, the first failed and the
\* second succeeded.
C18_Witness ==
    /\ Returned_(1, "all")
    /\ Len(ex[1].ret.results) = 2
    /\ ~ex[1].ret.results[1].success
    /\ ex[1].ret.results[2].success
    /\ ~ex[1].ret.success

\* ------------------------------------------------- execute_all terminates
\* The steps of a running invocation: each statement follows the one before
\* it once the call it makes has returned.
Running(p) ==
    \/ EaNext(p)
    \/ EtFetch(p)
    \/ EtMark(p)
    \/ EtUnknown(p)
    \/ EtRun(p)
    \/ EtLog(p)
    \/ EtUpdate(p)
    \/ EtExcept(p)

NextAll ==
    \/ \E content \in PlanDocs, ai \in AiResults : ParsePlan(1, content, ai)
    \/ \E stop_on_error \in BOOLEAN : ExecuteAll(1, stop_on_error)
    \/ Running(1)
    \/ Return(1)

\* Plans and batches, where a running invocation keeps running: the store
\* calls return, and so do the handlers (the subprocesses of run_claude and
\* run_tests have a timeout; the prompts of the shipper are answered).
SpecAllFair == Init /\ [][NextAll]_vars /\ WF_vars(Running(1))

\* The tasks pending at the call of invocation p were all marked in_progress
\* by it and are now completed or failed.
AllHandled(p) ==
    \A i \in InStatus(h[p].pre, "pending") :
        /\ i \in Range(h[p].dispatched)
        /\ tasks[i].status \in {"completed", "failed"}

NextConcurrent ==
    \/ \E ai \in AiResults : ParsePlan(1, DocChecklist, ai)
    \/ \E p \in Procs :
          \/ ExecuteNext(p)
          \/ EtFetch(p)
          \/ EtMark(p)
          \/ EtRun(p)
          \/ EtLog(p)
          \/ EtUpdate(p)
          \/ EtExcept(p)
          \/ Return(p)

SpecConcurrent == Init /\ [][NextConcurrent]_vars

\* C20: no task is handed to a skill handler by both of two concurrent
\* invocations.
C20_DispatchedOnce ==
    \A p, q \in Procs :
        p # q => Range(h[p].invoked) \cap Range(h[q].invoked) = {}

\* --------------------------------------------------- store transactions
\* The UPDATE statements one update_task call runs, in order, as the pairs
\* <<column, value>> they write.
UpdateStatements(status, result) ==
    (IF Truthy(status) THEN << <<"status", status>> >> ELSE <<>>)
    \o (IF Truthy(status) /\ status = "completed"
        THEN << <<"completed_at", TS>> >> ELSE <<>>)
    \o (IF Truthy(result) THEN << <<"result", result>> >> ELSE <<>>)

\* The row after one UPDATE ... SET column = value.
SetColumn(row, stmt) ==
    IF stmt[1] = "status" THEN [row EXCEPT !.status = stmt[2]]
    ELSE IF stmt[1] = "completed_at" THEN [row EXCEPT !.completed_at = stmt[2]]
    ELSE [row EXCEPT !.result = stmt[2]]

RECURSIVE RunStatements(_, _, _, _)
\* The connection's view of the table after the first n statements.
RunStatements(T, task_id, stmts, n) ==
    IF n = 0 THEN T
    ELSE LET before == RunStatements(T, task_id, stmts, n - 1)
         IN  [i \in 1..Len(before) |->
                IF before[i].id = task_id
                THEN SetColumn(before[i], stmts[n]) ELSE before[i]]

\* get_db around the statements of update_task: when statement fail_at
\* raises, the `with` block is left before conn.commit() and conn.close()
\* discards what the connection wrote; otherwise commit persists it all.
\* fail_at = 0: no statement raises.
UpdateTaskCall(p, task_id, status, result, fail_at) ==
    LET stmts == UpdateStatements(status, result)
        raised == fail_at \in 1..Len(stmts)
        view == RunStatements(tasks, task_id, stmts,
                              IF raised THEN fail_at - 1 ELSE Len(stmts))
    IN  /\ Idle(p)
        /\ task_id \in 1..Len(tasks)
        /\ fail_at \in 0..Len(stmts)
        /\ tasks' = IF raised THEN tasks ELSE view
        /\ ex' = [ex EXCEPT ![p] = [IdleFrame EXCEPT !.pc = "done",
                      !.op = "update", !.task_id = task_id,
                      !.ret = [status |-> status, result |-> result,
                               raised |-> raised]]]
        /\ h' = [h EXCEPT ![p] = Called]
        /\ UNCHANGED <<plans, executions, cl_text, cl_out, projects, knowledge, resets>>

\* The results the executor passes to update_task: none, a handler's output
\* or error, str(e).
CallResults == {NULL, "", "out", "err"}

NextTransactions ==
    \/ \E task_type \in {"code", "test"} : CreateTask(1, 1, task_type, 1)
    \/ \E task_id \in 1..MaxTasks, status \in Statuses,
          result \in CallResults, fail_at \in 0..3 :
             UpdateTaskCall(1, task_id, status, result, fail_at)
    \/ Return(1)

\* update_task calls, each in its own transaction, any of whose statements
\* may raise.
SpecTransactions == Init /\ [][NextTransactions]_vars

\* C21: an update_task call that raised has left the table as it was; one
\* that returned after being given a status and a result has left the task
\* with both; and a task that the call made completed has completed_at.
C21_AtomicUpdate ==
    \A p \in Procs :
        Returned_(p, "update") =>
            LET c == ex[p].ret
                row == tasks[ex[p].task_id]
            IN  /\ c.raised => tasks = h[p].pre
                /\ (~c.raised /\ c.result # NULL)
                      => row.status = c.status /\ row.result = c.result
                /\ (~c.raised /\ c.status = "completed")
                      => row.completed_at # NULL

\* ------------------------------------------------------------ parse_plan
\* C22: parse_plan on empty or white-space-only text returns success and
\* creates one plan and no task, whatever run_claude returns.
C22_BlankPlan ==
    [][\A content \in {DocEmpty, DocBlank}, ai \in AiResults :
          ParsePlan(1, content, ai)
              => /\ tasks' = tasks
                 /\ Len(plans') = Len(plans) + 1
                 /\ ex'[1].ret.success]_vars

\* What run_claude returned makes the extraction fail: the call failed, the
\* output holds no array that parses to a list, or an element of the array
\* is no task dict.
FailedExtractions ==
    {ai \in AiResults :
        \/ ~ai.success
        \/ ai.kind \notin {"array", "list"}
        \/ \E i \in 1..Len(ai.items) : ~ai.items[i].has_title}

\* C23: when the extraction by the assistant fails, parse_plan returns
\* success, raises nothing, and has created the plan and none of the tasks.
C23_ExtractionFailure ==
    [][\A ai \in FailedExtractions :
          ParsePlan(1, DocFree, ai)
              => /\ tasks' = tasks
                 /\ Len(plans') = Len(plans) + 1
                 /\ ex'[1].ret.success
                 /\ ~ex'[1].ret.raised]_vars

\* ------------------------------------------- handlers and external calls
\* One external call a handler made, and whether it timed out.
Call(name, timeout) == [call |-> name, timeout |-> timeout]

\* What subprocess.run of the claude CLI does: exit 0 with output, a
\* non-zero exit with stderr, subprocess.TimeoutExpired.
ClaudeRuns == {"ok", "error", "timeout"}

\* A variant of run_claude: a timeout is reported like any other failure.
run_claude_generic(kind) ==
    IF kind = "ok" THEN Dict(TRUE, "out", ABSENT, ABSENT)
    ELSE Dict(FALSE, ABSENT, "err", ABSENT)

\* run_claude, given what the subprocess did.
run_claude(kind) ==
    IF kind = "ok" THEN Dict(TRUE, "out", ABSENT, ABSENT)
    ELSE IF kind = "timeout" THEN Dict(FALSE, ABSENT, "Timeout", ABSENT)
    ELSE Dict(FALSE, ABSENT, "err", ABSENT)

\* What subprocess.run of the test command does.
RunnerRuns ==
    RunnerResults \cup
    {[kind |-> "timeout", returncode |-> 0, stdout |-> "", stderr |-> ""]}

\* knowledge.get_project_summary(...).get("test_framework", ""): the value
\* of the structure entry test_framework of the project, "" without one.
test_framework(K, P) ==
    LET proj_id == get_or_create_project(P, ProjectPath).id
        found == {i \in 1..Len(K) :
                     /\ K[i].project_id = proj_id
                     /\ K[i].category = "structure"
                     /\ K[i].key = "test_framework"}
    IN  IF found = {} THEN "" ELSE K[CHOOSE i \in found : TRUE].value

\* A handler's outcome together with the external calls it made.
Traced(outcome, calls, env) ==
    [raised |-> outcome.raised, result |-> outcome.result,
     exc |-> outcome.exc, calls |-> calls, env |-> env]

\* CoderSkill.execute: one run_claude.
CoderTraced(task) ==
    {Traced(Returned(CoderExecute(task, run_claude(kind))),
            << Call("claude", kind = "timeout") >>, NULL) :
        kind \in ClaudeRuns}

\* The external calls of TesterSkill.run_tests.
RunTestsCalls(framework, run) ==
    IF framework = "" \/ framework \notin KnownFrameworks THEN <<>>
    ELSE << Call("runner", run.kind = "timeout") >>

\* TesterSkill.execute: generate_tests (one run_claude) when the title holds
\* "generate", run_tests otherwise.
TesterTraced(task, framework) ==
    IF Contains(Lower(task.title), Generate)
    THEN {Traced(Returned(TesterExecute(task, framework,
                                        CHOOSE run \in RunnerRuns : TRUE,
                                        run_claude(kind))),
                 << Call("claude", kind = "timeout") >>, NULL) :
             kind \in ClaudeRuns}
    ELSE {Traced(Returned(TesterExecute(task, framework, run,
                                        run_claude("ok"))),
                 RunTestsCalls(framework, run), NULL) :
             run \in RunnerRuns}

\* A variant of ShipCalls: the tree is staged before the commit message is
\* asked for.
ShipCalls_addfirst(e) ==
    << Call("git status", FALSE) >>
    \o (IF e.status # "dirty" THEN <<>>
        ELSE << Call("ask action", FALSE) >>
        \o (IF e.action = "skip" THEN <<>>
            ELSE << Call("git add", FALSE), Call("ask message", FALSE) >>
            \o (IF e.message = "" \/ ~e.add_ok THEN <<>>
                ELSE << Call("git commit", FALSE) >>
                \o (IF ~e.commit_ok \/ e.action # "commit-push" THEN <<>>
                    ELSE << Call("confirm", FALSE) >>
                    \o (IF e.confirm
                        THEN << Call("git push", FALSE) >>
                        ELSE <<>>)))))

\* A variant of ShipCalls: commit-push pushes without asking again.
ShipCalls_noconfirm(e) ==
    << Call("git status", FALSE) >>
    \o (IF e.status # "dirty" THEN <<>>
        ELSE << Call("ask action", FALSE) >>
        \o (IF e.action = "skip" THEN <<>>
            ELSE << Call("ask message", FALSE) >>
            \o (IF e.message = "" THEN <<>>
                ELSE << Call("git add", FALSE) >>
                \o (IF ~e.add_ok THEN <<>>
                    ELSE << Call("git commit", FALSE) >>
                    \o (IF ~e.commit_ok \/ e.action # "commit-push" THEN <<>>
                        ELSE << Call("git push", FALSE) >>)))))

\* The prompts and git commands of ShipperSkill.interactive_ship, in order.
ShipCalls(e) ==
    << Call("git status", FALSE) >>
    \o (IF e.status # "dirty" THEN <<>>
        ELSE << Call("ask action", FALSE) >>
        \o (IF e.action = "skip" THEN <<>>
            ELSE << Call("ask message", FALSE) >>
            \o (IF e.message = "" THEN <<>>
                ELSE << Call("git add", FALSE) >>
                \o (IF ~e.add_ok THEN <<>>
                    ELSE << Call("git commit", FALSE) >>
                    \o (IF ~e.commit_ok \/ e.action # "commit-push" THEN <<>>
                        ELSE << Call("confirm", FALSE) >>
                        \o (IF e.confirm
                            THEN << Call("git push", FALSE) >>
                            ELSE <<>>))))))

ShipperTraced == {Traced(Returned(interactive_ship(e)), ShipCalls(e), e) :
                     e \in WideShipEnvs}

\* skill.execute(task) with its external calls; the tester reads the
\* framework from the knowledge table.
TracedOutcomes(task) ==
    IF task.task_type = "code" THEN CoderTraced(task)
    ELSE IF task.task_type = "test"
    THEN TesterTraced(task, test_framework(knowledge, projects))
    ELSE ShipperTraced

\* execute_task: result = skill.execute(task), recording the external calls.
EtRunTraced(p) ==
    /\ ex[p].pc = "et_run"
    /\ \E o \in TracedOutcomes(ex[p].task) :
          /\ ex' = [ex EXCEPT ![p] =
                IF o.raised
                THEN [@ EXCEPT !.pc = "et_except", !.e = o.exc]
                ELSE [@ EXCEPT !.pc = "et_log", !.result = o.result]]
          /\ h' = [h EXCEPT ![p].invoked = Append(@, ex[p].task_id),
                            ![p].hfail = @ \/ o.raised \/ ~o.result.success,
                            ![p].calls = @ \o o.calls,
                            ![p].env = o.env]
    /\ projects' = IF ex[p].task.task_type = "test"
                   THEN get_or_create_project(projects, ProjectPath).table
                   ELSE projects
    /\ UNCHANGED <<tasks, plans, executions, cl_text, cl_out, knowledge, resets>>

NextSkills ==
    \/ \E content \in {DocNumbered, DocChecklist}, ai \in AiResults :
          ParsePlan(1, content, ai)
    \/ \E value \in WideFrameworks : SetKnowledge(1, "test_framework", value)
    \/ ExecuteNext(1)
    \/ EtFetch(1)
    \/ EtMark(1)
    \/ EtRunTraced(1)
    \/ EtLog(1)
    \/ EtUpdate(1)
    \/ Return(1)
    \/ ResetAll(1)

\* Code, test and ship tasks executed one at a time, with the calls their
\* handlers make to the assistant, the test runner, git and the operator.
SpecSkills == Init /\ [][NextSkills]_vars

\* The names of the external calls invocation p made.
CallNames(p) == {h[p].calls[k].call : k \in 1..Len(h[p].calls)}

\* C24: with no test framework in the knowledge table, a dispatched test
\* task fails with the no-framework reason and its handler has called
\* neither the test runner nor the assistant, whatever its title.
C24_NoFramework ==
    \A p \in Procs :
        (/\ Dispatched(p)
         /\ ex[p].task.task_type = "test"
         /\ test_framework(knowledge, projects) = "")
            => /\ ~ex[p].ret.success
               /\ ex[p].ret.error = "No test framework detected"
               /\ tasks[ex[p].task_id].status = "failed"
               /\ CallNames(p) = {}

\* The position of the first call of this name among the calls of p, 0 when
\* there is none.
CallAt(p, name) ==
    IF name \in CallNames(p)
    THEN CHOOSE k \in 1..Len(h[p].calls) :
             /\ h[p].calls[k].call = name
             /\ \A j \in 1..(k - 1) : h[p].calls[j].call # name
    ELSE 0

\* C25: the ship handler has run git push only when the operator chose
\* commit-push, git add and git commit succeeded and the operator confirmed,
\* and then after the staging, the commit and the confirmation; with the
\* action commit or skip, or the confirmation declined, there is no push.
C25_PushAfterConfirm ==
    \A p \in Procs :
        "git push" \in CallNames(p) =>
            LET e == h[p].env
            IN  /\ e.action = "commit-push"
                /\ e.add_ok /\ e.commit_ok
                /\ e.confirm
                /\ 0 < CallAt(p, "git add")
                /\ CallAt(p, "git add") < CallAt(p, "git commit")
                /\ CallAt(p, "git commit") < CallAt(p, "confirm")
                /\ CallAt(p, "confirm") < CallAt(p, "git push")

\* A ship task was executed and its handler pushed.
C25_Witness ==
    /\ Dispatched(1)
    /\ ex[1].task.task_type = "ship"
    /\ "git push" \in CallNames(1)
    /\ h[1].env.confirm

\* An external call of invocation p timed out.
TimedOut(p) == \E k \in 1..Len(h[p].calls) : h[p].calls[k].timeout

\* The reasons that name a timeout: run_claude's and run_tests's.
TimeoutReasons == {"Timeout", "Test timeout"}

\* C26: when the assistant call or the test runner timed out during a
\* dispatch, execute_task returns failure and the task is failed with a
\* result that names the timeout.
C26_TimeoutFails ==
    \A p \in Procs :
        (Dispatched(p) /\ TimedOut(p)) =>
            /\ ~ex[p].ret.success
            /\ tasks[ex[p].task_id].status = "failed"
            /\ tasks[ex[p].task_id].result \in TimeoutReasons

\* A code task whose assistant call timed out has been executed, after a
\* test task whose assistant call had timed out too.
C26_Witness ==
    /\ Dispatched(1)
    /\ TimedOut(1)
    /\ ex[1].task.task_type = "code"
    /\ \E i \in 1..Len(tasks) :
          tasks[i].task_type = "test" /\ tasks[i].result = "Timeout"

\* ------------------------------------------------- executions and retries
MaxResets == 2

\* retry_failed(), as long as the record of resets has room.
RetryFailedCounted(p) ==
    /\ Len(resets) + CountIn(tasks, {"failed"}) <= MaxResets
    /\ RetryFailed(p)

\* RfReset, recording the id it resets.
RfResetCounted(p) ==
    /\ ex[p].pc = "rf_reset"
    /\ tasks' = update_task(tasks, Head(ex[p].failed).id, "pending", NULL)
    /\ ex' = [ex EXCEPT ![p] =
                IF ResetRest(@.failed) = <<>>
                THEN [@ EXCEPT !.pc = "ea_next", !.failed = <<>>,
                          !.results = <<>>, !.stop_on_error = TRUE]
                ELSE [@ EXCEPT !.failed = ResetRest(ex[p].failed)]]
    /\ resets' = Append(resets, Head(ex[p].failed).id)
    /\ UNCHANGED <<plans, executions, h, cl_text, cl_out, projects, knowledge>>

NextRetries ==
    \/ \E task_type \in {"code", "test"} : CreateTask(1, 1, task_type, 1)
    \/ \E task_id \in 1..MaxTasks : ExecuteTask(1, task_id)
    \/ ExecuteNext(1)
    \/ RetryFailedCounted(1)
    \/ RfResetCounted(1)
    \/ EaNext(1)
    \/ EtFetch(1)
    \/ EtMark(1)
    \/ EtRun(1)
    \/ EtLog(1)
    \/ EtUpdate(1)
    \/ EtExcept(1)
    \/ Return(1)

\* Single executions and retries, with the record of what retry_failed
\* reset.
SpecRetries == Init /\ [][NextRetries]_vars

\* The number of execution rows of task i, and of resets of task i.
Rows(i) == Cardinality({k \in 1..Len(executions) : executions[k].task_id = i})
Resets(i) == Cardinality({k \in 1..Len(resets) : resets[k] = i})

\* C27: a task has at most one row in the executions table more than the
\* number of times retry_failed reset it.
C27_ExecutionsAndRetries ==
    \A i \in 1..Len(tasks) : Rows(i) <= 1 + Resets(i)

\* No step of the executor changes or removes a row of the executions
\* table.
ExecutionsAppendOnly ==
    [][/\ Len(executions') >= Len(executions)
       /\ \A k \in 1..Len(executions) : executions'[k] = executions[k]]_vars

\* ------------------------------------------------ retry_failed, execute_all
\* The table T with every failed task set to pending.
FailedToPending(T) ==
    [i \in 1..Len(T) |->
        IF T[i].status = "failed" THEN [T[i] EXCEPT !.status = "pending"]
        ELSE T[i]]

\* The ids execute_all dispatches on the table T when every handler
\* succeeds: the pending tasks in get_next_task's order.
DispatchOrder(T) ==
    LET rows == get_tasks(T, 0, "pending")
    IN  [k \in 1..Len(rows) |-> rows[k].id]

\* What invocation p dispatched is what execute_all() dispatches on the
\* table T: the tasks of DispatchOrder(T) in order, up to the first that
\* fails, or all of them.
RanExecuteAll(p, T) ==
    LET order == DispatchOrder(T)
        n == Len(h[p].dispatched)
    IN  /\ n <= Len(order)
        /\ h[p].dispatched = SubSeq(order, 1, n)
        /\ \A k \in 1..(n - 1) : tasks[order[k]].status = "completed"
        /\ n < Len(order) => n > 0 /\ tasks[order[n]].status = "failed"
        /\ \A i \in 1..Len(tasks) :
              i \notin Range(h[p].dispatched) => tasks[i] = T[i]

\* C28: retry_failed ends as resetting every failed task to pending and
\* then running execute_all() ends, from every table, one without failed
\* tasks included: the same tasks are dispatched, the tasks that were
\* already pending among them, and the rest of the table is the reset one.
C28_RetryIsResetThenAll ==
    \A p \in Procs :
        Returned_(p, "retry") => RanExecuteAll(p, FailedToPending(h[p].pre))

\* ------------------------------------- get_or_create_project, interleaved
\* get_or_create_project: the SELECT. sqlite3 opens the transaction at the
\* INSERT, so the SELECT of another process can come between the two.
GpSelect(p) ==
    /\ Idle(p)
    /\ ex' = [ex EXCEPT ![p] =
          IF \E i \in 1..Len(projects) : projects[i].path = ProjectPath
          THEN [IdleFrame EXCEPT !.pc = "done", !.op = "project",
                   !.ret = [id |-> get_or_create_project(projects,
                                                         ProjectPath).id,
                            raised |-> FALSE]]
          ELSE [IdleFrame EXCEPT !.pc = "gp_insert", !.op = "project"]]
    /\ h' = [h EXCEPT ![p] = Called]
    /\ UNCHANGED <<tasks, plans, executions, cl_text, cl_out, projects, knowledge, resets>>

\* get_or_create_project: the INSERT and `return cur.lastrowid`; the column
\* path is UNIQUE, so the INSERT raises sqlite3.IntegrityError when a row
\* with this path was committed since the SELECT.
GpInsert(p) ==
    /\ ex[p].pc = "gp_insert"
    /\ IF \E i \in 1..Len(projects) : projects[i].path = ProjectPath
       THEN /\ ex' = [ex EXCEPT ![p].pc = "done",
                                ![p].ret = [id |-> 0, raised |-> TRUE]]
            /\ UNCHANGED projects
       ELSE /\ projects' = get_or_create_project(projects, ProjectPath).table
            /\ ex' = [ex EXCEPT ![p].pc = "done",
                         ![p].ret = [id |-> Len(projects) + 1,
                                     raised |-> FALSE]]
    /\ UNCHANGED <<tasks, plans, executions, h, cl_text, cl_out, knowledge, resets>>

NextProjects ==
    \E p \in Procs :
        \/ GpSelect(p)
        \/ GpInsert(p)
        \/ Return(p)
        \/ \E key \in KnowledgeKeys, value \in KnowledgeValues :
              SetKnowledge(p, key, value)

\* Two processes calling get_or_create_project and set_knowledge on one
\* database.
SpecProjects == Init /\ [][NextProjects]_vars

\* C29: every call of get_or_create_project returns the id of the one
\* project row of the path, and the table never holds two rows of it.
C29_ProjectIdempotent ==
    /\ Cardinality({i \in 1..Len(projects) :
                       projects[i].path = ProjectPath}) <= 1
    /\ \A p \in Procs :
          Returned_(p, "project") =>
              /\ ~ex[p].ret.raised
              /\ projects # <<>>
              /\ ex[p].ret.id = projects[1].id

\* ------------------------------------------------------- _extract_tasks
MaxLines == 3

\* One line of a plan: its text, what kind of line it is, and the item it
\* holds.
PlanLine(kind, text, item) == [kind |-> kind, text |-> text, item |-> item]

\* "- [ ] add", "* [x] Test", "1. push", "- generate spec", "## TODO",
\* "## Notes", "add"
PlanLines ==
    {PlanLine("checkbox", <<"-"," ","["," ","]"," ">> \o W_add, W_add),
     PlanLine("checkbox", <<"*"," ","[","x","]"," ">> \o W_Test, W_Test),
     PlanLine("numbered", <<"1","."," ">> \o W_push, W_push),
     PlanLine("bullet", <<"-"," ">> \o W_gen, W_gen),
     PlanLine("section", <<"#","#"," ","T","O","D","O">>, <<>>),
     PlanLine("heading", <<"#","#"," ","N","o","t","e","s">>, <<>>),
     PlanLine("text", W_add, <<>>)}

\* The plans of up to MaxLines of these lines.
ExtractInputs == UNION {[1..n -> PlanLines] : n \in 1..MaxLines}

\* The text of the plan: each line with its line end.
PlanText(lines) == Flatten([k \in 1..Len(lines) |-> lines[k].text \o NL])

\* What run_claude returns to the fallback here.
ExtractAiResults ==
    {AiResult(FALSE, "none", <<>>),
     AiResult(TRUE, "array", << TaskDict(W_Test, "test") >>)}

InitExtract ==
    /\ tasks = <<>>
    /\ plans = <<>>
    /\ executions = <<>>
    /\ ex = [p \in Procs |-> IdleFrame]
    /\ h = [p \in Procs |-> NoHistory]
    /\ cl_text \in ExtractInputs
    /\ cl_out = NULL
    /\ projects = <<>>
    /\ knowledge = <<>>
    /\ resets = <<>>

\* _extract_tasks: `if not tasks: tasks = self._ai_extract_tasks(content)`:
\* run_claude is called when the three patterns found nothing, which is
\* when the extraction with a failing assistant is empty.
FallbackCalls(content) ==
    IF _extract_tasks(content, AiResult(FALSE, "none", <<>>)) = <<>>
    THEN << Call("claude", FALSE) >> ELSE <<>>

\* One call of _extract_tasks on the plan.
ExtractTasks(p, ai) ==
    /\ Idle(p)
    /\ ex' = [ex EXCEPT ![p] = [IdleFrame EXCEPT !.pc = "done",
                  !.op = "extract",
                  !.ret = [tasks |-> _extract_tasks(PlanText(cl_text), ai),
                           ai |-> ai]]]
    /\ h' = [h EXCEPT ![p] = [Called EXCEPT
                  !.calls = FallbackCalls(PlanText(cl_text))]]
    /\ UNCHANGED <<tasks, plans, executions, cl_text, cl_out, projects, knowledge, resets>>

NextExtract ==
    \/ \E ai \in ExtractAiResults : ExtractTasks(1, ai)
    \/ Return(1)

\* _extract_tasks applied to each plan of ExtractInputs.
SpecExtract == InitExtract /\ [][NextExtract]_vars

\* The items of the lines of one kind, in order.
RECURSIVE ItemsOf(_, _)
ItemsOf(lines, kind) ==
    IF lines = <<>> THEN <<>>
    ELSE (IF Head(lines).kind = kind THEN << Head(lines).item >> ELSE <<>>)
         \o ItemsOf(Tail(lines), kind)

\* The bullets that open the sequence of lines.
RECURSIVE LeadingBullets(_)
LeadingBullets(lines) ==
    IF lines = <<>> \/ Head(lines).kind # "bullet" THEN <<>>
    ELSE << Head(lines).item >> \o LeadingBullets(Tail(lines))

\* The bullets right under the first Tasks/Steps/TODO/Plan heading that has
\* a bullet under it.
RECURSIVE SectionItems(_)
SectionItems(lines) ==
    IF Len(lines) < 2 THEN <<>>
    ELSE IF Head(lines).kind = "section" /\ lines[2].kind = "bullet"
    THEN LeadingBullets(Tail(lines))
    ELSE SectionItems(Tail(lines))

\* The cascade: checkbox items, else numbered items, else section bullets.
Cascade(lines) ==
    IF ItemsOf(lines, "checkbox") # <<>> THEN ItemsOf(lines, "checkbox")
    ELSE IF ItemsOf(lines, "numbered") # <<>> THEN ItemsOf(lines, "numbered")
    ELSE SectionItems(lines)

Titles(extracted) == [k \in 1..Len(extracted) |-> extracted[k].title]

\* C30: the extracted tasks are the checkbox items when the plan has one,
\* else the numbered items when it has one, else the bullets of a task
\* section, never a mix, and then run_claude is not called; it is called,
\* and its tasks are taken, only when all three found nothing.
C30_ExtractionCascade ==
    \A p \in Procs :
        Returned_(p, "extract") =>
            LET found == Cascade(cl_text)
            IN  IF found # <<>>
                THEN /\ Titles(ex[p].ret.tasks) = found
                     /\ h[p].calls = <<>>
                ELSE /\ ex[p].ret.tasks = _ai_extract_tasks(ex[p].ret.ai)
                     /\ CallNames(p) = {"claude"}

\* A plan with a checkbox item, a numbered item and a bullet was extracted:
\* only the checkbox item became a task.
C30_Witness ==
    /\ Returned_(1, "extract")
    /\ ItemsOf(cl_text, "checkbox") # <<>>
    /\ ItemsOf(cl_text, "numbered") # <<>>
    /\ ItemsOf(cl_text, "bullet") # <<>>
    /\ Len(ex[1].ret.tasks) = 1

C32_ResetChangesStatusOnly ==
    [][ex[1].pc = "rf_reset" =>
          /\ executions' = executions
          /\ Len(tasks') = Len(tasks)
          /\ \A i \in 1..Len(tasks) :
                IF tasks[i].status = "failed"
                THEN /\ tasks'[i].status \in {"failed", "pending"}
                     /\ [tasks'[i] EXCEPT !.status = "failed"] = tasks[i]
                ELSE tasks'[i] = tasks[i]]_vars

\* The reset loop has just ended: a task that was failed is pending, with
\* the result and the execution row of its failure.
C32_Witness ==
    /\ ex[1].op = "retry" /\ ex[1].pc = "ea_next"
    /\ h[1].dispatched = <<>>
    /\ \E i \in InStatus(h[1].pre, "failed") :
          /\ tasks[i].status = "pending"
          /\ tasks[i].result = "err"
          /\ Rows(i) = 1

\* ------------------------------------------------------ interactive_ship
\* The git commands that change the repository or the remote, and the
\* prompts put to the operator.
GitWrites == {"git add", "git commit", "git push"}
Prompts == {"ask action", "ask message", "confirm"}

\* Invocation p has returned from a dispatched ship task.
Shipped(p) == Dispatched(p) /\ ex[p].task.task_type = "ship"

\* C33: when the tree was dirty, the operator chose commit or commit-push
\* and gave an empty message, the ship task fails and git add, git commit
\* and git push were not run; when the tree was clean it succeeds and the
\* handler neither prompted nor ran one of them.
C33_ShipWithoutMessageOrChanges ==
    \A p \in Procs :
        Shipped(p) =>
            /\ (/\ h[p].env.status = "dirty"
                /\ h[p].env.action \in {"commit", "commit-push"}
                /\ h[p].env.message = "")
                   => /\ ~ex[p].ret.success
                      /\ ex[p].ret.error = "No commit message"
                      /\ CallNames(p) \cap GitWrites = {}
            /\ h[p].env.status = "clean"
                   => /\ ex[p].ret.success
                      /\ ex[p].ret.message = "Nothing to commit"
                      /\ CallNames(p) \cap (GitWrites \cup Prompts) = {}

\* A ship task was executed on a dirty tree with the commit-push action and
\* an empty message, where staging, commit and push would all have worked.
C33_Witness ==
    /\ Shipped(1)
    /\ h[1].env.status = "dirty"
    /\ h[1].env.action = "commit-push"
    /\ h[1].env.message = ""
    /\ h[1].env.add_ok /\ h[1].env.commit_ok /\ h[1].env.confirm
    /\ CallNames(1) = {"git status", "ask action", "ask message"}

\* A ship task was executed on a clean tree.
C33_CleanTree ==
    /\ Shipped(1)
    /\ h[1].env.status = "clean"
    /\ CallNames(1) = {"git status"}

\* ------------------------------------------------------ unknown framework
\* C34: with a test framework in the knowledge table that has no command in
\* the table of _get_test_command, a dispatched test task fails with the
\* unknown-framework reason and its handler has run no command.
C34_UnknownFramework ==
    \A p \in Procs :
        (/\ Dispatched(p)
         /\ ex[p].task.task_type = "test"
         /\ test_framework(knowledge, projects) \notin KnownFrameworks \cup {""})
            => /\ ~ex[p].ret.success
               /\ ex[p].ret.error = "Unknown framework"
               /\ tasks[ex[p].task_id].status = "failed"
               /\ CallNames(p) = {}

\* The same for the test tasks that run_tests handles, those whose title
\* does not hold "generate".
C34_RunTestsUnknownFramework ==
    \A p \in Procs :
        (/\ Dispatched(p)
         /\ ex[p].task.task_type = "test"
         /\ ~Contains(Lower(ex[p].task.title), Generate)
         /\ test_framework(knowledge, projects) \notin KnownFrameworks \cup {""})
            => /\ ~ex[p].ret.success
               /\ ex[p].ret.error = "Unknown framework"
               /\ tasks[ex[p].task_id].status = "failed"
               /\ CallNames(p) = {}

\* A test task that run_tests handles was executed with an unknown
\* framework in the knowledge table.
C34_RunTestsReached ==
    /\ Dispatched(1)
    /\ ex[1].task.task_type = "test"
    /\ ~Contains(Lower(ex[1].task.title), Generate)
    /\ test_framework(knowledge, projects) = "nose"

\* ---------------------------------------------- executions and statuses
\* No invocation is under way: each has not been called or has returned.
AtRest == \A p \in Procs : ex[p].pc \in {"idle", "done"}

\* The tasks with a row in the executions table that records a success.
Succeeded == {executions[k].task_id : k \in {j \in 1..Len(executions) :
                                                 executions[j].success}}

\* C35: between the operations of the planner, the executor and the reset,
\* the completed tasks are exactly the tasks with a successful row in the
\* executions table.
C35_CompletedIffSucceeded ==
    AtRest => InStatus(tasks, "completed") = Succeeded

\* One task is completed with its successful row, the other failed with a
\* row that records the failure.
C35_Witness ==
    /\ AtRest
    /\ Len(executions) = 2
    /\ \E i, j \in Ids :
          /\ tasks[i].status = "completed" /\ i \in Succeeded
          /\ tasks[j].status = "failed" /\ j \notin Succeeded /\ Rows(j) = 1

\* ------------------------------------------------------------ in_progress
ExecutorOps == {"task", "next", "all", "retry"}

C37_CompletedIsFinal ==
    [][\A i \in Ids :
          tasks[i].status = "completed" =>
              \/ i \in 1..Len(tasks') /\ tasks'[i] = tasks[i]
              \/ tasks' = <<>> /\ ex'[1].op = "reset"]_vars

\* retry_failed has returned after running a task again, next to a task
\* that was completed before the call and is as it was.
C37_Witness ==
    /\ Returned_(1, "retry")
    /\ h[1].dispatched # <<>>
    /\ \E i \in InStatus(h[1].pre, "completed") :
          /\ tasks[i] = h[1].pre[i]
          /\ tasks[i].completed_at = TS

\* C38: with two invocations of the executor at work on the same store, no
\* step of either moves a completed task to another status.
C38_CompletedStaysCompleted ==
    [][\A i \in Ids :
          tasks[i].status = "completed" =>
              /\ i \in 1..Len(tasks')
              /\ tasks'[i].status = "completed"]_vars

\* ------------------------------------------------ one run of execute_all
\* No element occurs twice in the sequence.
Distinct(seq) == \A i, j \in 1..Len(seq) : seq[i] = seq[j] => i = j

\* C39: during and after a run of execute_all, on its own or from
\* retry_failed, no task was dispatched twice and no task id occurs twice in
\* the results; with stop_on_error only the last result can be a failure.
C39_DispatchedOncePerRun ==
    \A p \in Procs :
        ex[p].op \in {"all", "retry"} =>
            /\ Distinct(h[p].dispatched)
            /\ Distinct(TaskIds(ex[p].results))
            /\ ex[p].stop_on_error =>
                  \A k \in 1..Len(ex[p].results) :
                      ~ex[p].results[k].success => k = Len(ex[p].results)

\* execute_all with stop_on_error has returned after a success and then a
\* failure, with a third task never dispatched or none left.
C39_Witness ==
    /\ Returned_(1, "all")
    /\ ex[1].stop_on_error
    /\ Len(ex[1].ret.results) = 2
    /\ ex[1].ret.results[1].success
    /\ ~ex[1].ret.results[2].success
    /\ h[1].dispatched = <<ex[1].ret.results[1].task_id,
                           ex[1].ret.results[2].task_id>>

\* ------------------------------------------------------- planned task types
\* C40: every task in the table, all of them created by parse_plan, has one
\* of the task types the executor has a handler for, and none has failed
\* with the unknown-task-type result.
C40_PlannedTypesHaveHandlers ==
    \A i \in Ids :
        /\ tasks[i].task_type \in {"code", "test", "ship"}
        /\ tasks[i].result # "Unknown task type"

====
